---- MODULE Spec2Model ----
(***************************************************************************)
(* Git submodule workflow CLI (scripts/git-submodules-js): the sync        *)
(* command (syncSubmodules / syncSubmodule), the new-feature command       *)
(* (newFeature / createFeatureBranch), the init command (initSubmodules)   *)
(* and the create-pr and parent-pr commands, over the gitHelpers and       *)
(* githubHelpers adapters.                                                 *)
(*                                                                         *)
(* A working directory is named by its path; "." is the parent repository. *)
(* The state of git in a directory is a record; the adapter's calls are    *)
(* operators on that record, and the two commands are stepped through      *)
(* their handlers.                                                         *)
(***************************************************************************)
EXTENDS Naturals, Sequences, FiniteSets, TLC

\* ------------------------------------------------------------- bounds
\* Command invocations in one behaviour.
MaxRuns == 2
\* Adapter calls that fail for an outside reason (network, lock, corrupt
\* repository) in one behaviour.
MaxFailures == 1

\* ------------------------------------------------------------- names
Parent == "."
Services == {"svc-a", "svc-b"}
Dirs == Services \cup {Parent}
FeatureNames == {"x", "y"}
Detached == "HEAD"
NoRef == ""

Max(a, b) == IF a >= b THEN a ELSE b

\* f with key k bound to v (k may be new).
Bind(f, k, v) == [n \in DOMAIN f \cup {k} |-> IF n = k THEN v ELSE f[n]]

NoBranches == [n \in {} |-> 0]

\* ------------------------------------------------------------- git
\* What git does in one repository.  A repository record:
\*   exists     the directory is there
\*   git        it has its own .git (an initialised repository)
\*   modified / staged / untracked   the three ways a tree is dirty
\*   head       the branch checked out, or Detached
\*   rev        the commit HEAD is at
\*   local      local branches and their commits
\*   tracking   remote-tracking branches (origin/*) and their commits
\*   remote     the branches of the remote itself
\*   originHead refs/remotes/origin/HEAD (NoRef when not set)
\*   upstream   the local branches configured to track origin/<same name>
\*   stash      the stash list, newest first
\*   files      the directory holds something (a .git counts)

\* simple-git StatusResult.isClean(): no file entry of any kind.
IsClean(r) == ~(r.modified \/ r.staged \/ r.untracked)

\* The dirty state as one value.
Tree(r) == [modified |-> r.modified, staged |-> r.staged, untracked |-> r.untracked]

\* git stash push -m <message>: saves index and tracked modifications and
\* resets them; untracked files are left alone (no --include-untracked), and
\* with nothing but untracked files it saves nothing and still exits 0.
GitStashPush(r, message) ==
  IF r.modified \/ r.staged
    THEN [r EXCEPT !.stash = <<[message |-> message, modified |-> r.modified,
                                staged |-> r.staged, untracked |-> FALSE]>> \o @,
                   !.modified = FALSE, !.staged = FALSE]
    ELSE r

\* git stash apply --index of an entry on a tree: the saved changes come back.
StashApplied(r, e) ==
  [modified |-> r.modified \/ e.modified, staged |-> r.staged \/ e.staged,
   untracked |-> r.untracked \/ e.untracked]

\* git fetch origin: the remote-tracking branches take the remote's commits
\* (no pruning).
GitFetch(r) ==
  [r EXCEPT !.tracking = [n \in DOMAIN r.tracking \cup DOMAIN r.remote |->
                            IF n \in DOMAIN r.remote THEN r.remote[n] ELSE r.tracking[n]]]

\* git pull origin <branch>: possible when the remote has the branch.
CanPull(r, branch) == branch \in DOMAIN r.remote

\* Mutant: the pull does not move HEAD (already up to date is assumed).
GitPull_stale(r, branch) == r

\* ... it fetches that branch and fast-forwards HEAD to it.
GitPull(r, branch) ==
  LET to == Max(r.rev, r.remote[branch])
  IN  [r EXCEPT !.rev = to,
                !.tracking = Bind(r.tracking, branch, r.remote[branch]),
                !.local = IF r.head = Detached THEN @ ELSE Bind(@, r.head, to)]

\* git checkout <branch>: a local branch, or else a remote-tracking branch of
\* that name, from which git creates the local branch, tracking it.
CanCheckout(r, branch) == branch \in DOMAIN r.local \/ branch \in DOMAIN r.tracking

\* Mutant: the commit of the branch is checked out, HEAD stays detached.
GitCheckout_detached(r, branch) ==
  [r EXCEPT !.rev = IF branch \in DOMAIN r.local THEN r.local[branch] ELSE r.tracking[branch]]

\* Mutant: the checkout is undone, HEAD is where it was.
GitCheckout_stays(r, branch) == r

GitCheckout(r, branch) ==
  IF branch \in DOMAIN r.local
    THEN [r EXCEPT !.head = branch, !.rev = r.local[branch]]
    ELSE [r EXCEPT !.head = branch, !.rev = r.tracking[branch],
                   !.local = Bind(@, branch, r.tracking[branch]),
                   !.upstream = @ \cup {branch}]

\* git checkout -b <branch> origin/<branch> (simple-git checkoutBranch).
CanCheckoutBranch(r, branch) == branch \notin DOMAIN r.local /\ branch \in DOMAIN r.tracking

GitCheckoutBranch(r, branch) ==
  [r EXCEPT !.head = branch, !.rev = r.tracking[branch],
            !.local = Bind(@, branch, r.tracking[branch]),
            !.upstream = @ \cup {branch}]

\* Mutant: the branch is created and not checked out (git branch <branch>).
GitCheckoutLocalBranch_noSwitch(r, branch) == [r EXCEPT !.local = Bind(@, branch, r.rev)]

\* git checkout -b <branch> (simple-git checkoutLocalBranch): from HEAD.
CanCheckoutLocalBranch(r, branch) == branch \notin DOMAIN r.local

GitCheckoutLocalBranch(r, branch) ==
  [r EXCEPT !.head = branch, !.local = Bind(@, branch, r.rev)]

\* simple-git branch(): git branch -a -v; remote-tracking branches are listed
\* as remotes/origin/<name>.
BranchAll(r) == DOMAIN r.local \cup {"remotes/origin/" \o n : n \in DOMAIN r.tracking}

\* simple-git branch(['-r']): git branch -r -v; listed as origin/<name>.
BranchRemotes(r) == {"origin/" \o n : n \in DOMAIN r.tracking}

\* String.replace('origin/', '') on a listed name.
StripOrigin(name, r) ==
  IF \E n \in DOMAIN r.tracking : "origin/" \o n = name
    THEN CHOOSE n \in DOMAIN r.tracking : "origin/" \o n = name
    ELSE name

\* ------------------------------------------------------------- gitHelpers
\* Mutant: only tracked files count as changes.
hasUncommittedChanges_ignoresUntracked(r) == r.modified \/ r.staged

\* gitHelpers.hasUncommittedChanges: !status.isClean().
hasUncommittedChanges(r) == ~IsClean(r)

\* Mutant: the branch pulled is always main, not the one checked out.
getCurrentBranch_main(r) == "main"

\* gitHelpers.getCurrentBranch: status.current ("HEAD" when detached).
getCurrentBranch(r) == r.head

\* git symbolic-ref refs/remotes/origin/HEAD, and the replace() that strips
\* the prefix from its output.
SymbolicRef(r) == "refs/remotes/origin/" \o r.originHead

StripRemotePrefix(ref, r) ==
  IF \E n \in DOMAIN r.tracking \cup {r.originHead} : "refs/remotes/origin/" \o n = ref
    THEN CHOOSE n \in DOMAIN r.tracking \cup {r.originHead} : "refs/remotes/origin/" \o n = ref
    ELSE ref

\* gitHelpers.getDefaultBranch: the symbolic ref when git has one, else the
\* fallback over branch().all.
getDefaultBranch(r) ==
  IF r.originHead # NoRef
    THEN StripRemotePrefix(SymbolicRef(r), r)
    ELSE IF "origin/main" \in BranchAll(r) THEN "main"
    ELSE IF "origin/master" \in BranchAll(r) THEN "master"
    ELSE "main"

\* Mutant: the local branch list is never consulted.
branchExists_never(branchName, r) == FALSE

\* gitHelpers.branchExists: branchLocal().all.includes(name).
branchExists(branchName, r) == branchName \in DOMAIN r.local

\* Mutant: the origin/ prefix is left on the listed names.
getRemoteBranches_unstripped(r) == BranchRemotes(r)

\* gitHelpers.getRemoteBranches / remoteBranchExists.
getRemoteBranches(r) == {StripOrigin(n, r) : n \in BranchRemotes(r)}

remoteBranchExists(branchName, r) == branchName \in getRemoteBranches(r)

\* gitHelpers.stash(message, dir).
stash(message, r) == GitStashPush(r, message)

\* ------------------------------------------------------------- records
\* An adapter call that changes (or tries to change) a repository.
Op(dir, name, arg, ok) == [dir |-> dir, op |-> name, arg |-> arg, ok |-> ok]

\* A line the command prints.
Line(about, msg) == [about |-> about, msg |-> msg]

\* What a handler hands back: the repository after it, its return value,
\* whether it threw instead of returning, what it printed and called, and
\* whether the injected failure was met; asked: the prompts it put to the
\* operator, with the answers.
Out(r, success, threw, lines, calls, hit) ==
  [r |-> r, success |-> success, threw |-> threw, log |-> lines, ops |-> calls,
   hit |-> hit, asked |-> <<>>]

\* An inquirer confirm prompt and its answer.
Prompt(message, answer) == [message |-> message, answer |-> answer]

\* Mutant: the answer is taken as given, the operator is not asked.
WithPrompt_unasked(out, message, answer) == out

WithPrompt(out, message, answer) == [out EXCEPT !.asked = <<Prompt(message, answer)>>]

\* ------------------------------------------------------------- decisions
\* A decision a command took on a value it had read from a repository:
\* readAt and usedAt count the changing calls (stash, fetch, checkout, pull)
\* the command had made on that repository when the value was read and
\* when it was acted on.
Decision(dir, field, readAt, usedAt) ==
  [dir |-> dir, field |-> field, readAt |-> readAt, usedAt |-> usedAt]

\* The position of the fetch that worked among the calls, 0 without one.
FetchedAt(calls) ==
  IF \E i \in 1..Len(calls) : calls[i].op = "fetch" /\ calls[i].ok
    THEN CHOOSE i \in 1..Len(calls) : calls[i].op = "fetch" /\ calls[i].ok
    ELSE 0

\* syncSubmodule: currentBranch is read at line 264, after the stash and
\* before the fetch of line 270, and decides at line 278, after it;
\* defaultBranch is read at line 289, after the fetch, and used at 291-293.
syncDecisions(name, calls) ==
  LET k == FetchedAt(calls) IN
  IF k = 0 THEN <<>>
  ELSE <<Decision(name, "currentBranch", k - 1, k)>>
       \o (IF \E i \in 1..Len(calls) : calls[i].op = "checkout"
             THEN <<Decision(name, "defaultBranch", k, k)>> ELSE <<>>)

\* createFeatureBranch: currentBranch and defaultBranch are read at lines
\* 80-81, before the fetch of line 89, and decide at line 97, after it.
updateDecisions(serviceName, calls) ==
  LET k == FetchedAt(calls) IN
  IF k = 0 THEN <<>>
  ELSE <<Decision(serviceName, "currentBranch", k - 1, k),
         Decision(serviceName, "defaultBranch", k - 1, k)>>

\* createFeatureBranch: branchExists and remoteBranchExists are read at
\* lines 123-124, after the pull, and decide at lines 126 and 150.
branchDecisions(serviceName, made, threw) ==
  IF threw THEN <<>>
  ELSE <<Decision(serviceName, "branchExists", made, made),
         Decision(serviceName, "remoteBranchExists", made, made)>>

\* ------------------------------------------------------------- sync
\* `Auto-stash before sync ${new Date().toISOString()}`
StashMessage(now) == [text |-> "Auto-stash before sync", time |-> now]

\* Adapter calls of syncSubmodule that can fail for an outside reason.
SyncSites == {"hasUncommittedChanges", "stash", "getCurrentBranch", "fetch",
              "pull", "getDefaultBranch", "checkout"}

\* syncSubmodule lines 277-299: after a fetch that worked.
syncAfterFetch(name, r, currentBranch, fail, lines, calls) ==
  IF currentBranch # NoRef /\ currentBranch # Detached
    THEN \* on a branch: pull it
      IF fail = "pull" \/ ~CanPull(r, currentBranch)
        THEN Out(r, FALSE, FALSE, lines \o <<Line(name, "Failed to pull")>>,
                 calls \o <<Op(name, "pull", currentBranch, FALSE)>>, fail = "pull")
        ELSE Out(GitPull(r, currentBranch), TRUE, FALSE,
                 lines \o <<Line(name, "Successfully synced")>>,
                 calls \o <<Op(name, "pull", currentBranch, TRUE)>>, FALSE)
    ELSE \* detached: check out the default branch, then pull it
      IF fail = "getDefaultBranch" /\ r.originHead = NoRef
        THEN Out(r, FALSE, TRUE, lines, calls, TRUE)
        ELSE
          LET defaultBranch == getDefaultBranch(r) IN
          IF fail = "checkout" \/ ~CanCheckout(r, defaultBranch)
            THEN Out(r, FALSE, FALSE, lines \o <<Line(name, "Failed to checkout")>>,
                     calls \o <<Op(name, "checkout", defaultBranch, FALSE)>>,
                     fail = "checkout")
            ELSE
              LET r1 == GitCheckout(r, defaultBranch)
                  c1 == calls \o <<Op(name, "checkout", defaultBranch, TRUE)>>
              IN  IF fail = "pull" \/ ~CanPull(r1, defaultBranch)
                    THEN Out(r1, FALSE, FALSE,
                             lines \o <<Line(name, "Failed to checkout")>>,
                             c1 \o <<Op(name, "pull", defaultBranch, FALSE)>>,
                             fail = "pull")
                    ELSE Out(GitPull(r1, defaultBranch), TRUE, FALSE,
                             lines \o <<Line(name, "Successfully synced")>>,
                             c1 \o <<Op(name, "pull", defaultBranch, TRUE)>>, FALSE)

\* Mutant: the fetch is left out, the branch is pulled straight away.
syncAfterGate_noFetch(name, r, fail, lines, calls) ==
  syncAfterFetch(name, r, getCurrentBranch(r), fail, lines, calls)

\* syncSubmodule lines 263-275: after the dirty-tree gate.
syncAfterGate(name, r, fail, lines, calls) ==
  IF fail = "getCurrentBranch"
    THEN Out(r, FALSE, TRUE, lines, calls, TRUE)
    ELSE
      LET currentBranch == getCurrentBranch(r) IN
      IF fail = "fetch"
        THEN Out(r, FALSE, FALSE, lines \o <<Line(name, "Failed to fetch changes")>>,
                 calls \o <<Op(name, "fetch", "origin", FALSE)>>, TRUE)
        ELSE syncAfterFetch(name, GitFetch(r), currentBranch, fail, lines,
                            calls \o <<Op(name, "fetch", "origin", TRUE)>>)

\* Mutant: the force option is not consulted, a dirty tree is always stashed.
skipDirty_never(forceUpdate) == FALSE

\* line 247: a dirty tree is skipped unless the update is forced.
skipDirty(forceUpdate) == ~forceUpdate

\* syncSubmodule(submodulePath, submoduleName, forceUpdate), on the
\* repository r that git finds at the path.
syncSubmodule(name, r, forceUpdate, fail, now) ==
  IF ~r.exists
    THEN Out(r, FALSE, FALSE, <<Line(name, "Submodule directory not found")>>, <<>>, FALSE)
  ELSE IF fail = "hasUncommittedChanges"
    THEN Out(r, FALSE, TRUE, <<>>, <<>>, TRUE)
  ELSE IF hasUncommittedChanges(r)
    THEN IF skipDirty(forceUpdate)
           THEN Out(r, FALSE, FALSE,
                    <<Line(name, "Uncommitted changes detected"), Line(name, "Skipping")>>,
                    <<>>, FALSE)
         ELSE IF fail = "stash"
           THEN Out(r, FALSE, FALSE,
                    <<Line(name, "Uncommitted changes detected"),
                      Line(name, "Failed to stash changes")>>,
                    <<Op(name, "stash", StashMessage(now).text, FALSE)>>, TRUE)
         ELSE syncAfterGate(name, stash(StashMessage(now), r), fail,
                            <<Line(name, "Uncommitted changes detected"),
                              Line(name, "Changes stashed")>>,
                            <<Op(name, "stash", StashMessage(now).text, TRUE)>>)
  ELSE syncAfterGate(name, r, fail, <<>>, <<>>)

\* ------------------------------------------------------------- state
VARIABLES
  repo,          \* directory -> repository record
  gitmodules,    \* .gitmodules: present or not, and its entries in file order
  pointer,       \* the parent's committed submodule pointers (0: none)
  index,         \* the parent's staged submodule pointers
  cmd,           \* the command running or last run: "none", "sync", "new-feature"
  pc,            \* where the running command is
  force,         \* sync: options.force
  submodules,    \* sync: what getSubmodules() returned
  idx,           \* sync: position of the for loop
  results,       \* sync: the results array
  summary,       \* sync: the summary lines printed
  service,       \* new-feature: serviceName
  feature,       \* new-feature: featureName
  currentBranch, \* new-feature: const currentBranch
  defaultBranch, \* new-feature: const defaultBranch
  returned,      \* new-feature: "none", "true", "false" or "threw"
  available,     \* new-feature: the available services listed
  prompts,       \* prompts answered in the running command
  prevAllSynced, \* the command before this one was an unforced sync, all Synced
  failuresAtStart, \* failures when the running command started
  log,           \* lines printed by the running command
  ops,           \* repository-changing adapter calls of the running command
  exitCode,      \* process exit code of the last command (0 while running)
  clock,         \* new Date()
  host,          \* what init works with besides git: project files, gh, GitHub
  gitconfig,     \* the submodules registered in the parent's .git/config
  serviceFolders, \* init: what getServiceFolders() returned
  decisions,     \* the running command's decisions that came after a changing call
  runs,          \* commands started
  failures       \* adapter failures injected

vars == <<repo, gitmodules, pointer, index, cmd, pc, force, submodules, idx, results,
          summary, service, feature, currentBranch, defaultBranch, returned,
          available, prompts, prevAllSynced, failuresAtStart, log, ops, exitCode, clock,
          host, gitconfig, serviceFolders, decisions, runs, failures>>

syncVars == <<force, submodules, idx, results, summary>>
featureVars == <<service, feature, currentBranch, defaultBranch, returned, available>>
initVars == <<host, serviceFolders>>

\* The repository git works on in a directory: the directory's own when it
\* has a .git, otherwise the enclosing one git discovers, the parent's.
GitDir(dir) == IF repo[dir].git THEN dir ELSE Parent

\* An initialised repository of its own in the directory.
OwnRepo(dir) == repo[dir].exists /\ repo[dir].git

\* No outside failure, or one that the handler met and the budget allows.
Injected(fail, hit) == fail = "none" \/ (hit /\ failures < MaxFailures)

Spend(fail) == IF fail = "none" THEN failures ELSE failures + 1

Idle == pc \in {"idle", "done", "exit"}

\* Every repository of the run got the result Synced (success).
AllSynced ==
  /\ Len(results) > 0 /\ Len(results) = Len(submodules)
  /\ \A i \in 1..Len(results) : results[i].success

\* Bookkeeping common to the start of a command.
Begin(command) ==
  /\ cmd' = command
  /\ runs' = runs + 1
  /\ ops' = <<>>
  /\ prompts' = <<>>
  /\ failuresAtStart' = failures
  /\ prevAllSynced' = (cmd = "sync" /\ pc = "done" /\ ~force /\ AllSynced)
  /\ decisions' = <<>>

\* A command that runs in one step: started, with all it called.
BeginWith(command, calls) ==
  /\ cmd' = command
  /\ runs' = runs + 1
  /\ ops' = calls
  /\ prompts' = <<>>
  /\ failuresAtStart' = failures
  /\ prevAllSynced' = FALSE
  /\ decisions' = <<>>

\* ------------------------------------------------------------- syncSubmodules
\* git submodule init: the submodules of .gitmodules are registered in
\* .git/config (git submodule sync rewrites the URLs of those registered).
GitSubmoduleInit(config, entries) == config \cup {entries[i].name : i \in 1..Len(entries)}

\* The two calls of lines 323-342; a failure of either is printed and ignored.
\* And the read of .gitmodules in getSubmodules (line 345), whose failure
\* gives the empty list.
StartSites == {"submoduleSync", "submoduleInit", "getSubmodules"}

\* Mutant: an empty list does not end the run, the parent step follows.
afterStart_goesOn(found) == "parent"

\* lines 347-350: without submodules the command returns, otherwise the loop
\* starts.
afterStart(found) == IF Len(found) = 0 THEN "done" ELSE "sync"

\* gitHelpers.getSubmodules: the entries of .gitmodules, [] when it cannot
\* be read.
getSubmodules(file, failed) == IF failed THEN <<>> ELSE file.entries

StartLines(fail) ==
  IF fail = "submoduleSync" THEN <<Line(Parent, "Failed to sync submodule URLs")>>
  ELSE IF fail = "submoduleInit" THEN <<Line(Parent, "Failed to initialize submodules")>>
  ELSE <<>>

\* lines 305-350: options, the .gitmodules check, submodule sync and init
\* (their failures are printed and ignored), getSubmodules().
SyncStart ==
  /\ Idle /\ runs < MaxRuns
  /\ \E f \in BOOLEAN, fail \in StartSites \cup {"none"} :
       /\ force' = f
       /\ Begin("sync")
       /\ results' = <<>>
       /\ summary' = <<>>
       /\ idx' = 1
       /\ returned' = "none" /\ available' = {}
       /\ IF ~gitmodules.present
            THEN /\ fail = "none"
                 /\ log' = <<Line(Parent, ".gitmodules not found")>>
                 /\ submodules' = <<>>
                 /\ pc' = "exit" /\ exitCode' = 1
                 /\ UNCHANGED <<gitconfig, failures>>
            ELSE /\ Injected(fail, TRUE)
                 /\ failures' = Spend(fail)
                 /\ gitconfig' = IF fail = "submoduleInit" THEN gitconfig
                                 ELSE GitSubmoduleInit(gitconfig, gitmodules.entries)
                 /\ submodules' = getSubmodules(gitmodules, fail = "getSubmodules")
                 /\ exitCode' = 0
                 /\ pc' = afterStart(submodules')
                 /\ log' = StartLines(fail)
                             \o (IF Len(submodules') = 0
                                   THEN <<Line(Parent, "No submodules found")>> ELSE <<>>)
  /\ UNCHANGED <<repo, gitmodules, pointer, index, service, feature, currentBranch,
                 defaultBranch, clock>>
  /\ UNCHANGED initVars

\* Mutant: the loop is left after its first turn.
afterRepo_first(i, n) == "parent"

\* lines 352-357, for...of: after the turn for entry i of n, the next entry,
\* or past the loop to the parent step.
afterRepo(i, n) == IF i = n THEN "parent" ELSE "sync"

\* lines 352-357: one turn of the loop.  A throw of syncSubmodule leaves
\* syncSubmodules, and the command's action (index.js 51-57) exits with 1.
SyncRepo ==
  /\ pc = "sync" /\ idx <= Len(submodules)
  /\ \E fail \in SyncSites \cup {"none"} :
       LET submodule == submodules[idx]
           dir == IF repo[submodule.path].exists THEN GitDir(submodule.path)
                  ELSE submodule.path
           out == syncSubmodule(submodule.name, repo[dir], force, fail, clock)
       IN  /\ Injected(fail, out.hit)
           /\ failures' = Spend(fail)
           /\ repo' = [repo EXCEPT ![dir] = out.r]
           /\ log' = log \o out.log
           /\ ops' = ops \o out.ops
           /\ prompts' = prompts \o out.asked
           /\ decisions' = decisions \o syncDecisions(submodule.name, out.ops)
           /\ IF out.threw
                THEN /\ pc' = "exit" /\ exitCode' = 1
                     /\ UNCHANGED <<results, idx>>
                ELSE /\ results' = Append(results, [name |-> submodule.name,
                                                    path |-> submodule.path,
                                                    success |-> out.success])
                     /\ idx' = idx + 1
                     /\ pc' = afterRepo(idx, Len(submodules))
                     /\ UNCHANGED exitCode
  /\ clock' = clock + 1
  /\ UNCHANGED <<gitmodules, pointer, index, cmd, force, submodules, summary, runs,
                 prevAllSynced, failuresAtStart>>
  /\ UNCHANGED featureVars
  /\ UNCHANGED <<initVars, gitconfig>>

\* ------------------------------------------------------------- parent step
\* git add . in the parent: every change of the parent's tree is staged, and
\* each submodule's pointer is staged at the commit checked out in it (a
\* submodule whose directory is gone is staged as deleted, one that is not
\* initialised is left as it is).
GitAddAll(parent) ==
  [parent EXCEPT !.staged = @ \/ parent.modified \/ parent.untracked,
                 !.modified = FALSE, !.untracked = FALSE]

StagedPointers ==
  [s \in Services |-> IF ~repo[s].exists THEN 0
                      ELSE IF repo[s].git THEN repo[s].rev
                      ELSE index[s]]

\* git status of the parent, as hasUncommittedChanges() sees it with the
\* tree p and the staged pointers ix: its own files, staged pointer changes,
\* and submodules whose checkout or content differs.
ParentHasChanges(p, ix) ==
  \/ ~IsClean(p)
  \/ ix # pointer
  \/ \E s \in Services : /\ repo[s].exists /\ repo[s].git /\ ix[s] # 0
                         /\ (repo[s].rev # ix[s] \/ ~IsClean(repo[s]))

\* git commit -m: what is staged becomes the parent's HEAD.
GitCommit(parent) == [parent EXCEPT !.staged = FALSE]

ParentSites == {"add", "status", "getSubmoduleStatus", "commit"}

\* What the parent step hands back.
ParentOut(p, ix, ptr, lines, calls, hit) ==
  [parent |-> p, index |-> ix, pointer |-> ptr, log |-> lines, ops |-> calls,
   hit |-> hit, asked |-> <<>>]

ParentFailed(p, ix, calls) ==
  ParentOut(p, ix, pointer, <<Line(Parent, "Failed to update parent repo")>>, calls, TRUE)

CommitPrompt == "Commit submodule updates to parent repo?"

\* lines 359-397, with the operator's answer to the commit prompt.
updateParent(fail, commitChanges) ==
  LET parent == repo[Parent] IN
  IF fail = "add"
    THEN ParentFailed(parent, index, <<Op(Parent, "add", ".", FALSE)>>)
    ELSE
      LET p1 == GitAddAll(parent)
          ix == StagedPointers
          c1 == <<Op(Parent, "add", ".", TRUE)>>
      IN  IF fail = "status" THEN ParentFailed(p1, ix, c1)
          ELSE IF ~ParentHasChanges(p1, ix)
            THEN ParentOut(p1, ix, pointer,
                           <<Line(Parent, "No submodule reference updates needed")>>, c1, FALSE)
          ELSE IF ~commitChanges
            THEN WithPrompt(ParentOut(p1, ix, pointer,
                                      <<Line(Parent, "Submodule updates staged but not committed")>>,
                                      c1, FALSE), CommitPrompt, FALSE)
          ELSE IF fail = "getSubmoduleStatus"
            THEN WithPrompt(ParentFailed(p1, ix, c1), CommitPrompt, TRUE)
          ELSE IF fail = "commit"
            THEN WithPrompt(ParentFailed(p1, ix, c1 \o <<Op(Parent, "commit", "chore", FALSE)>>),
                            CommitPrompt, TRUE)
          ELSE WithPrompt(ParentOut(GitCommit(p1), ix, ix,
                                    <<Line(Parent, "Committed submodule updates to parent repo")>>,
                                    c1 \o <<Op(Parent, "commit", "chore", TRUE)>>, FALSE),
                          CommitPrompt, TRUE)

\* Mutant: the error of the parent step is not caught, it leaves the run.
afterParent_throws(failed) == IF failed THEN "exit" ELSE "summary"

\* lines 361-397: the parent step is one try whose catch prints the error;
\* the summary follows either way.
afterParent(failed) == "summary"

SyncParent ==
  /\ pc = "parent"
  /\ \E fail \in ParentSites \cup {"none"}, commitChanges \in BOOLEAN :
       LET out == updateParent(fail, commitChanges)
       IN  /\ Injected(fail, out.hit)
           /\ failures' = Spend(fail)
           /\ repo' = [repo EXCEPT ![Parent] = out.parent]
           /\ index' = out.index
           /\ pointer' = out.pointer
           /\ log' = log \o out.log
           /\ ops' = ops \o out.ops
           /\ prompts' = prompts \o out.asked
           /\ pc' = afterParent(out.hit)
  /\ UNCHANGED <<gitmodules, cmd, exitCode, clock, runs, prevAllSynced, failuresAtStart,
                 decisions>>
  /\ UNCHANGED syncVars
  /\ UNCHANGED featureVars
  /\ UNCHANGED <<initVars, gitconfig>>

\* lines 399-407: one summary line per result.
SummaryLine(result) ==
  [name |-> result.name, mark |-> IF result.success THEN "check" ELSE "cross (failed)"]

\* lines 399-426: the summary, and the command returns.
SyncSummary ==
  /\ pc = "summary"
  /\ summary' = [i \in 1..Len(results) |-> SummaryLine(results[i])]
  /\ log' = Append(log, Line(Parent, "Submodule sync complete"))
  /\ pc' = "done"
  /\ UNCHANGED <<repo, gitmodules, pointer, index, cmd, force, submodules, idx, results,
                 ops, prompts, exitCode, clock, runs, failures, prevAllSynced,
                 failuresAtStart, decisions>>
  /\ UNCHANGED featureVars
  /\ UNCHANGED <<initVars, gitconfig>>

\* ------------------------------------------------------------- new-feature
\* Mutant: a suffix is added to the branch name.
featureBranchName_suffixed(featureName) == "feature/" \o featureName \o "-1"

\* line 120: `feature/${featureName}`.
featureBranchName(featureName) == "feature/" \o featureName

\* getAvailableServices: the directories under services/ that hold a .git.
getAvailableServices == {s \in Services : repo[s].exists /\ repo[s].git}

\* Adapter calls of createFeatureBranch that can fail for an outside reason.
FeatureSites == {"isGitRepo", "hasUncommittedChanges", "getCurrentBranch",
                 "getDefaultBranch", "fetch", "checkout", "pull", "branchExists",
                 "remoteBranchExists", "checkoutFeature", "checkoutBranch",
                 "createBranch"}

\* Mutant: a failed step does not end the function, it goes on to the next.
Step_goesOn(out, goesOn) ==
  [r |-> out.r, success |-> out.success, threw |-> out.threw, log |-> out.log,
   ops |-> out.ops, hit |-> out.hit, asked |-> out.asked, goesOn |-> TRUE]

\* What a step of createFeatureBranch hands back: Out, and whether the
\* function goes on to its next step.
Step(out, goesOn) ==
  [r |-> out.r, success |-> out.success, threw |-> out.threw, log |-> out.log,
   ops |-> out.ops, hit |-> out.hit, asked |-> out.asked, goesOn |-> goesOn]

\* lines 53-85, in a directory that exists: the repository check, the
\* clean-tree check, and the reading of the current and default branch.
checkService(serviceName, r, fail) ==
  IF fail = "isGitRepo"
    THEN Step(Out(r, FALSE, FALSE, <<Line(serviceName, "is not a git repository")>>,
                  <<>>, TRUE), FALSE)
  ELSE IF fail = "hasUncommittedChanges"
    THEN Step(Out(r, FALSE, TRUE, <<>>, <<>>, TRUE), FALSE)
  ELSE IF hasUncommittedChanges(r)
    THEN Step(Out(r, FALSE, FALSE,
                  <<Line(serviceName, "Uncommitted changes detected"),
                    Line(serviceName, "Please commit or stash your changes first")>>,
                  <<>>, FALSE), FALSE)
  ELSE IF fail = "getCurrentBranch" \/ (fail = "getDefaultBranch" /\ r.originHead = NoRef)
    THEN Step(Out(r, FALSE, TRUE, <<>>, <<>>, TRUE), FALSE)
  ELSE Step(Out(r, TRUE, FALSE, <<Line(serviceName, "Status check complete")>>,
                <<>>, FALSE), TRUE)

\* lines 87-117: fetch, switch to the default branch, pull it.
updateDefault(serviceName, r, current, default, fail) ==
  IF fail = "fetch"
    THEN Step(Out(r, FALSE, FALSE, <<Line(serviceName, "Failed to fetch changes")>>,
                  <<Op(serviceName, "fetch", "origin", FALSE)>>, TRUE), FALSE)
    ELSE
      LET r1 == GitFetch(r)
          c1 == <<Op(serviceName, "fetch", "origin", TRUE)>>
          switch == current # default
      IN  IF switch /\ (fail = "checkout" \/ ~CanCheckout(r1, default))
            THEN Step(Out(r1, FALSE, FALSE, <<Line(serviceName, "Failed to switch")>>,
                          c1 \o <<Op(serviceName, "checkout", default, FALSE)>>,
                          fail = "checkout"), FALSE)
            ELSE
              LET r2 == IF switch THEN GitCheckout(r1, default) ELSE r1
                  c2 == IF switch THEN c1 \o <<Op(serviceName, "checkout", default, TRUE)>>
                        ELSE c1
              IN  IF fail = "pull" \/ ~CanPull(r2, default)
                    THEN Step(Out(r2, FALSE, FALSE,
                                  <<Line(serviceName, "Failed to pull latest changes")>>,
                                  c2 \o <<Op(serviceName, "pull", default, FALSE)>>,
                                  fail = "pull"), FALSE)
                    ELSE Step(Out(GitPull(r2, default), TRUE, FALSE,
                                  <<Line(serviceName, "Pulled latest changes")>>,
                                  c2 \o <<Op(serviceName, "pull", default, TRUE)>>,
                                  FALSE), TRUE)

\* One of the three branch actions of lines 138-170: the call, its name in
\* the log of calls, whether git can do it, and the line printed on failure.
branchAction(serviceName, r, site, fail, can, after, featureBranch, failure) ==
  IF fail = site \/ ~can
    THEN Out(r, FALSE, FALSE, <<Line(serviceName, failure)>>,
             <<Op(serviceName, site, featureBranch, FALSE)>>, fail = site)
    ELSE Out(after, TRUE, FALSE, <<Line(serviceName, "Feature branch setup complete")>>,
             <<Op(serviceName, site, featureBranch, TRUE)>>, FALSE)

SwitchPrompt == "Do you want to switch to it?"

\* lines 119-189, with the operator's answer to the switch prompt.
chooseBranch(serviceName, featureName, r, fail, switchToBranch) ==
  LET featureBranch == featureBranchName(featureName) IN
  IF fail \in {"branchExists", "remoteBranchExists"}
    THEN Out(r, FALSE, TRUE, <<>>, <<>>, TRUE)
  ELSE IF branchExists(featureBranch, r)
    THEN IF switchToBranch
           THEN WithPrompt(branchAction(serviceName, r, "checkoutFeature", fail,
                                        CanCheckout(r, featureBranch),
                                        GitCheckout(r, featureBranch),
                                        featureBranch, "Failed to switch to feature branch"),
                           SwitchPrompt, TRUE)
           ELSE WithPrompt(Out(r, FALSE, FALSE,
                               <<Line(serviceName, "already exists locally"),
                                 Line(serviceName, "Staying on current branch")>>,
                               <<>>, FALSE),
                           SwitchPrompt, FALSE)
  ELSE IF remoteBranchExists(featureBranch, r)
    THEN branchAction(serviceName, r, "checkoutBranch", fail,
                      CanCheckoutBranch(r, featureBranch),
                      GitCheckoutBranch(r, featureBranch),
                      featureBranch, "Failed to checkout remote branch")
  ELSE branchAction(serviceName, r, "createBranch", fail,
                    CanCheckoutLocalBranch(r, featureBranch),
                    GitCheckoutLocalBranch(r, featureBranch),
                    featureBranch, "Failed to create feature branch")

\* What the command's action (index.js 66-75) does with the outcome.
ReturnedAs(out) == IF out.threw THEN "threw" ELSE IF out.success THEN "true" ELSE "false"

\* newFeature and createFeatureBranch lines 29-85.
FeatureStart ==
  /\ Idle /\ runs < MaxRuns
  /\ \E serviceName \in Services \cup {""}, featureName \in FeatureNames \cup {""},
        fail \in FeatureSites \cup {"none"} :
       /\ service' = serviceName /\ feature' = featureName
       /\ Begin("new-feature")
       /\ IF serviceName = "" \/ featureName = ""
            THEN \* lines 193-208
                 /\ fail = "none"
                 /\ log' = <<Line(Parent, "Invalid arguments")>>
                 /\ available' = getAvailableServices
                 /\ returned' = "false" /\ pc' = "exit" /\ exitCode' = 1
                 /\ UNCHANGED <<repo, currentBranch, defaultBranch, failures>>
          ELSE IF ~repo[serviceName].exists
            THEN \* lines 37-51
                 /\ fail = "none"
                 /\ log' = <<Line(serviceName, "not found")>>
                 /\ available' = getAvailableServices
                 /\ returned' = "false" /\ pc' = "exit" /\ exitCode' = 1
                 /\ UNCHANGED <<repo, currentBranch, defaultBranch, failures>>
          ELSE LET r == repo[GitDir(serviceName)]
                   out == checkService(serviceName, r, fail)
               IN  /\ Injected(fail, out.hit)
                   /\ failures' = Spend(fail)
                   /\ log' = out.log
                   /\ available' = {}
                   /\ currentBranch' = IF out.goesOn THEN getCurrentBranch(r) ELSE NoRef
                   /\ defaultBranch' = IF out.goesOn THEN getDefaultBranch(r) ELSE NoRef
                   /\ IF out.goesOn
                        THEN returned' = "none" /\ pc' = "update" /\ exitCode' = 0
                        ELSE returned' = ReturnedAs(out) /\ pc' = "exit" /\ exitCode' = 1
                   /\ UNCHANGED repo
  /\ UNCHANGED <<gitmodules, pointer, index, clock>>
  /\ UNCHANGED syncVars
  /\ UNCHANGED <<initVars, gitconfig>>

\* createFeatureBranch lines 87-117.
FeatureUpdate ==
  /\ pc = "update"
  /\ \E fail \in FeatureSites \cup {"none"} :
       LET dir == GitDir(service)
           out == updateDefault(service, repo[dir], currentBranch, defaultBranch, fail)
       IN  /\ Injected(fail, out.hit)
           /\ failures' = Spend(fail)
           /\ repo' = [repo EXCEPT ![dir] = out.r]
           /\ log' = log \o out.log
           /\ ops' = ops \o out.ops
           /\ prompts' = prompts \o out.asked
           /\ decisions' = decisions \o updateDecisions(service, out.ops)
           /\ IF out.goesOn
                THEN pc' = "branch" /\ UNCHANGED <<returned, exitCode>>
                ELSE returned' = ReturnedAs(out) /\ pc' = "exit" /\ exitCode' = 1
  /\ UNCHANGED <<gitmodules, pointer, index, cmd, clock, runs, service, feature,
                 currentBranch, defaultBranch, available, prevAllSynced, failuresAtStart>>
  /\ UNCHANGED syncVars
  /\ UNCHANGED <<initVars, gitconfig>>

\* createFeatureBranch lines 119-189.
FeatureBranch ==
  /\ pc = "branch"
  /\ \E fail \in FeatureSites \cup {"none"}, switchToBranch \in BOOLEAN :
       LET dir == GitDir(service)
           out == chooseBranch(service, feature, repo[dir], fail, switchToBranch)
       IN  /\ Injected(fail, out.hit)
           /\ failures' = Spend(fail)
           /\ repo' = [repo EXCEPT ![dir] = out.r]
           /\ log' = log \o out.log
           /\ ops' = ops \o out.ops
           /\ prompts' = prompts \o out.asked
           /\ decisions' = decisions \o branchDecisions(service, Len(ops), out.threw)
           /\ returned' = ReturnedAs(out)
           /\ IF out.success /\ ~out.threw
                THEN pc' = "done" /\ exitCode' = 0
                ELSE pc' = "exit" /\ exitCode' = 1
  /\ UNCHANGED <<gitmodules, pointer, index, cmd, clock, runs, service, feature,
                 currentBranch, defaultBranch, available, prevAllSynced, failuresAtStart>>
  /\ UNCHANGED syncVars
  /\ UNCHANGED <<initVars, gitconfig>>

\* ------------------------------------------------------------- sync: start states
Clean == [modified |-> FALSE, staged |-> FALSE, untracked |-> FALSE]

Trees == {Clean, [Clean EXCEPT !.modified = TRUE], [Clean EXCEPT !.staged = TRUE],
          [Clean EXCEPT !.untracked = TRUE],
          [Clean EXCEPT !.modified = TRUE, !.untracked = TRUE]}

\* An initialised clone of a remote whose branches are `remote`.
Clone(tree, head, rev, local, remote, originHead) ==
  [exists |-> TRUE, git |-> TRUE,
   modified |-> tree.modified, staged |-> tree.staged, untracked |-> tree.untracked,
   head |-> head, rev |-> rev, local |-> local, tracking |-> [n \in DOMAIN remote |-> 1],
   remote |-> remote, originHead |-> originHead,
   upstream |-> DOMAIN local \cap DOMAIN remote, stash |-> <<>>, files |-> TRUE]

\* A directory that is not there / a submodule directory not yet initialised.
Missing == [Clone(Clean, "main", 1, NoBranches, NoBranches, NoRef)
              EXCEPT !.exists = FALSE, !.git = FALSE, !.files = FALSE]

\* The linked repositories a sync can meet: on main, on another branch that
\* the remote has too, or detached (with or without origin/HEAD), clean or
\* dirty, one commit behind the remote; and a detached one whose remote has
\* the branch master only and no origin/HEAD (a remote added by hand).
SyncRepos ==
  {Clone(t, h[1], 1, [n \in {"main"} \cup ({h[1]} \ {Detached}) |-> 1],
         [n \in {"main"} \cup ({h[1]} \ {Detached}) |-> 2], h[2]) :
     t \in Trees, h \in {<<"main", "main">>, <<"dev", "main">>, <<Detached, "main">>,
                         <<Detached, NoRef>>}}
  \cup {Clone(Clean, Detached, 1, [n \in {"master"} |-> 1], [n \in {"master"} |-> 2], NoRef)}
  \cup {Missing}

\* A project root set up for the workflow: README.md and services/ are
\* there, gh is installed and logged in, no GitHub repository made and no
\* pull request opened yet.
Project == [readme |-> TRUE, services |-> TRUE, gh |-> TRUE, auth |-> TRUE,
            hosted |-> {}, backup |-> FALSE, temp |-> {}, prs |-> <<>>]

ParentRepo == Clone(Clean, "main", 1, [n \in {"main"} |-> 1], [n \in {"main"} |-> 1], "main")

\* The parent repository before a command: its own tree clean, or with a
\* modified or an untracked file of its own (nothing staged).
Parents ==
  {[ParentRepo EXCEPT !.modified = t.modified, !.untracked = t.untracked] :
     t \in {Clean, [Clean EXCEPT !.modified = TRUE], [Clean EXCEPT !.untracked = TRUE]}}

Entry(s) == [name |-> s, path |-> s]

Registries == {<<>>, <<Entry("svc-a")>>, <<Entry("svc-a"), Entry("svc-b")>>}

Registered(entries) == {entries[i].path : i \in 1..Len(entries)}

Init ==
  /\ gitmodules \in {[present |-> FALSE, entries |-> <<>>]}
                    \cup {[present |-> TRUE, entries |-> e] : e \in Registries}
  /\ repo \in [Dirs -> SyncRepos \cup {ParentRepo}]
  /\ repo[Parent] = ParentRepo
  /\ \A s \in Services : /\ repo[s] # ParentRepo
                         /\ s \notin Registered(gitmodules.entries) => repo[s] = Missing
  /\ pointer = [s \in Services |-> IF s \in Registered(gitmodules.entries) THEN 1 ELSE 0]
  /\ index = pointer
  /\ cmd = "none" /\ pc = "idle"
  /\ force = FALSE /\ submodules = <<>> /\ idx = 1 /\ results = <<>> /\ summary = <<>>
  /\ service = "" /\ feature = "" /\ currentBranch = NoRef /\ defaultBranch = NoRef
  /\ returned = "none" /\ available = {}
  /\ prompts = <<>> /\ prevAllSynced = FALSE /\ failuresAtStart = 0
  /\ log = <<>> /\ ops = <<>> /\ decisions = <<>> /\ exitCode = 0 /\ clock = 0 /\ runs = 0 /\ failures = 0
  /\ host = Project /\ serviceFolders = <<>>
  /\ gitconfig = {s \in Registered(gitmodules.entries) : OwnRepo(s)}

Next == SyncStart \/ SyncRepo \/ SyncParent \/ SyncSummary

Spec == Init /\ [][Next]_vars

\* ------------------------------------------------------------- sync: a parent with files of its own
\* A sync of two registered repositories, one commit behind their remotes
\* (svc-a clean, modified, detached or missing), run in a parent whose own
\* tree may hold a modified or an untracked file.
ParentSyncRepos ==
  {Clone(t, h, 1, [n \in {"main"} |-> 1], [n \in {"main"} |-> 2], "main") :
     t \in {Clean, [Clean EXCEPT !.modified = TRUE]}, h \in {"main", Detached}}
  \cup {Missing}

ParentSyncInit ==
  /\ gitmodules = [present |-> TRUE, entries |-> <<Entry("svc-a"), Entry("svc-b")>>]
  /\ repo \in [Dirs -> ParentSyncRepos \cup Parents]
  /\ repo[Parent] \in Parents
  /\ repo["svc-a"] \in ParentSyncRepos
  /\ repo["svc-b"] = Clone(Clean, "main", 1, [n \in {"main"} |-> 1], [n \in {"main"} |-> 2], "main")
  /\ pointer = [s \in Services |-> 1]
  /\ index = pointer
  /\ cmd = "none" /\ pc = "idle"
  /\ force = FALSE /\ submodules = <<>> /\ idx = 1 /\ results = <<>> /\ summary = <<>>
  /\ service = "" /\ feature = "" /\ currentBranch = NoRef /\ defaultBranch = NoRef
  /\ returned = "none" /\ available = {}
  /\ prompts = <<>> /\ prevAllSynced = FALSE /\ failuresAtStart = 0
  /\ log = <<>> /\ ops = <<>> /\ decisions = <<>> /\ exitCode = 0 /\ clock = 0 /\ runs = 0 /\ failures = 0
  /\ host = Project /\ serviceFolders = <<>>
  /\ gitconfig = {s \in Registered(gitmodules.entries) : OwnRepo(s)}

ParentSpec == ParentSyncInit /\ [][Next]_vars

\* ------------------------------------------------------------- new-feature: start states
\* The service repositories a new-feature can meet: on main, on a local-only
\* branch, on the feature branch or detached; the feature branch present
\* locally or not, on the remote or not (and not fetched yet); clean or dirty.
FeatureRepos ==
  {Clone(t, h, 1, [n \in l \cup {"main"} \cup ({h} \ {Detached}) |-> 1],
         [n \in rm \cup {"main"} |-> 2], oh) :
     t \in {Clean, [Clean EXCEPT !.modified = TRUE], [Clean EXCEPT !.untracked = TRUE]},
     h \in {"main", "dev", "feature/x", Detached},
     l \in {{}, {"feature/x"}}, rm \in {{}, {"feature/x"}}, oh \in {"main", NoRef}}

\* Remote-tracking branches as of the last fetch: the feature branch, when
\* the remote has one, was pushed after it.
Unfetched(r) == [r EXCEPT !.tracking = [n \in {"main"} |-> 1], !.upstream = {"main"}]

Uninitialised == [Missing EXCEPT !.exists = TRUE]

FeatureInit ==
  /\ gitmodules = [present |-> TRUE, entries |-> <<Entry("svc-a"), Entry("svc-b")>>]
  /\ repo \in [Dirs -> {Unfetched(r) : r \in FeatureRepos} \cup {Missing, Uninitialised, ParentRepo}]
  /\ repo[Parent] = ParentRepo
  /\ repo["svc-a"] # ParentRepo
  /\ repo["svc-b"] = Unfetched(Clone(Clean, "main", 1, [n \in {"main"} |-> 1],
                                     [n \in {"main"} |-> 2], "main"))
  /\ pointer = [s \in Services |-> 1]
  /\ index = pointer
  /\ cmd = "none" /\ pc = "idle"
  /\ force = FALSE /\ submodules = <<>> /\ idx = 1 /\ results = <<>> /\ summary = <<>>
  /\ service = "" /\ feature = "" /\ currentBranch = NoRef /\ defaultBranch = NoRef
  /\ returned = "none" /\ available = {}
  /\ prompts = <<>> /\ prevAllSynced = FALSE /\ failuresAtStart = 0
  /\ log = <<>> /\ ops = <<>> /\ decisions = <<>> /\ exitCode = 0 /\ clock = 0 /\ runs = 0 /\ failures = 0
  /\ host = Project /\ serviceFolders = <<>>
  /\ gitconfig = {s \in Registered(gitmodules.entries) : OwnRepo(s)}

FeatureNext == FeatureStart \/ FeatureUpdate \/ FeatureBranch

FeatureSpec == FeatureInit /\ [][FeatureNext]_vars

\* Mutant: the project root is not checked.
checkProjectRoot_always(h) == TRUE

\* ------------------------------------------------------------- init
\* checkProjectRoot: README.md and services are accessible.
checkProjectRoot(h) == h.readme /\ h.services

\* gitHelpers.isGitRepo(dir): git status works in the directory, which it
\* does in any directory inside a repository.
isGitRepo(dir) == repo[GitDir(dir)].exists /\ repo[GitDir(dir)].git

\* gitHelpers.isSubmodule(dir): the directory holds a .git.
isSubmodule(r) == r.exists /\ r.git

\* gitHelpers.isRegisteredSubmodule(path): a path line of .gitmodules has it.
isRegisteredSubmodule(path, modules) ==
  \E i \in 1..Len(modules.entries) : modules.entries[i].path = path

\* isFolderEmpty / hasGitRepo of init-submodules.
isFolderEmpty(r) == ~r.exists \/ ~r.files

hasGitRepo(r) == r.exists /\ r.git

\* generateRepoName: the folder name without a '-service' suffix.
generateRepoName(folderName) ==
  IF \E n \in Services : n \o "-service" = folderName
    THEN CHOOSE n \in Services : n \o "-service" = folderName
    ELSE folderName

\* A GitHub repository name; stamp is the Date.now() suffix (0: none).
RepoId(name, stamp) == [name |-> name, stamp |-> stamp]

\* createGitHubRepo: the name asked for, or when a repository of that name is
\* there already, the name with the timestamp appended.
createGitHubRepo(repoName, hosted, now) ==
  IF RepoId(repoName, 0) \in hosted THEN RepoId(repoName, now + 1) ELSE RepoId(repoName, 0)

\* A folder's files committed and pushed by lines 172-177: a repository on
\* main with the remote as its origin.
Pushed == Clone(Clean, "main", 1, [n \in {"main"} |-> 1], [n \in {"main"} |-> 1], NoRef)

\* ... before the push: nothing on the remote yet.
Committed == [Pushed EXCEPT !.remote = NoBranches, !.tracking = NoBranches, !.upstream = {}]

\* git submodule add <url> <path>: the clone, as git leaves it.
Added == Clone(Clean, "main", 1, [n \in {"main"} |-> 1], [n \in {"main"} |-> 1], "main")

\* A folder with files and no .git.
PlainFolder == [Missing EXCEPT !.exists = TRUE, !.files = TRUE]

\* Calls of processServiceFolder that can fail for an outside reason.
ProcessSites == {"repoCreate", "push", "addSubmodule"}

\* What processServiceFolder leaves behind and returns.
Processed(r, parent, modules, ix, config, h, calls, result, hit) ==
  [r |-> r, parent |-> parent, gitmodules |-> modules, index |-> ix,
   gitconfig |-> config, host |-> h, ops |-> calls, result |-> result, hit |-> hit]

\* The catch of lines 243-247.
ProcessFailed(folderName) == [folderName |-> folderName, success |-> FALSE, kind |-> "failed"]

ProcessDone(folderName, kind) == [folderName |-> folderName, success |-> TRUE, kind |-> kind]

\* lines 150-151 / 183-187: git submodule add, which registers the clone in
\* .gitmodules and .git/config and stages both; it cannot check out a
\* repository without a commit.
addSubmodule(folderName, id, hasCommit, parent, modules, ix, config, h, calls, fail, kind) ==
  IF fail = "addSubmodule" \/ ~hasCommit
    THEN Processed(Missing, parent, modules, ix, config, h,
                   calls \o <<Op(folderName, "addSubmodule", id.name, FALSE)>>,
                   ProcessFailed(folderName), fail = "addSubmodule")
    ELSE Processed(Added, [parent EXCEPT !.staged = TRUE],
                   [present |-> TRUE,
                    entries |-> Append(modules.entries, [name |-> folderName, path |-> folderName])],
                   [ix EXCEPT ![folderName] = Added.rev],
                   config \cup {folderName},
                   [h EXCEPT !.temp = @ \ {folderName}],
                   calls \o <<Op(folderName, "addSubmodule", id.name, TRUE)>>,
                   ProcessDone(folderName, kind), FALSE)

\* processServiceFolder(folderName) on the folder r.
processServiceFolder(folderName, r, parent, modules, ix, config, h, now, fail) ==
  IF isSubmodule(r) \/ isRegisteredSubmodule(folderName, modules)
    THEN Processed(r, parent, modules, ix, config, h, <<>>,
                   ProcessDone(folderName, "skipped"), FALSE)
  ELSE
    LET id == createGitHubRepo(generateRepoName(folderName), h.hosted, now)
        made == [h EXCEPT !.hosted = @ \cup {id}]
    IN
    IF isFolderEmpty(r)
      THEN \* lines 138-155: the folder is deleted, a repository made, and added
        LET c1 == <<Op(folderName, "rm", folderName, TRUE)>> IN
        IF fail = "repoCreate"
          THEN Processed(Missing, parent, modules, ix, config, h,
                         c1 \o <<Op(folderName, "repoCreate", id.name, FALSE)>>,
                         ProcessFailed(folderName), TRUE)
          ELSE addSubmodule(folderName, id, FALSE, parent, modules, ix, config, made,
                            c1 \o <<Op(folderName, "repoCreate", id.name, TRUE)>>,
                            fail, "created")
    ELSE IF ~hasGitRepo(r)
      THEN \* lines 160-191: git rm --cached, a repository made, the files pushed
        LET p1 == [parent EXCEPT !.staged = TRUE]
            c1 == <<Op(Parent, "rmCached", folderName, TRUE)>>
        IN
        IF fail = "repoCreate"
          THEN Processed(r, p1, modules, ix, config, h,
                         c1 \o <<Op(folderName, "repoCreate", id.name, FALSE)>>,
                         ProcessFailed(folderName), TRUE)
        ELSE IF fail = "push"
          THEN Processed(Committed, p1, modules, ix, config, made,
                         c1 \o <<Op(folderName, "repoCreate", id.name, TRUE),
                                 Op(folderName, "init", "main", TRUE),
                                 Op(folderName, "push", "main", FALSE)>>,
                         ProcessFailed(folderName), TRUE)
        ELSE addSubmodule(folderName, id, TRUE, p1, modules, ix, config,
                          [made EXCEPT !.temp = @ \cup {folderName}],
                          c1 \o <<Op(folderName, "repoCreate", id.name, TRUE),
                                  Op(folderName, "init", "main", TRUE),
                                  Op(folderName, "push", "main", TRUE),
                                  Op(folderName, "rename", folderName, TRUE)>>,
                          fail, "initialized")
    ELSE \* lines 192-242 need a .git in the folder, which line 126 has excluded
      Processed(r, parent, modules, ix, config, h, <<>>,
                ProcessDone(folderName, "existingRemote"), FALSE)

\* getServiceFolders: the directories under services/, in readdir order.
getServiceFolders ==
  LET names == <<"svc-a", "svc-b">>
      Pick[i \in 0..Len(names)] ==
        IF i = 0 THEN <<>>
        ELSE IF repo[names[i]].exists THEN Append(Pick[i - 1], names[i]) ELSE Pick[i - 1]
  IN  Pick[Len(names)]

\* initSubmodules lines 251-292: the four checks, each fatal, then mkdir
\* services and the discovery of the folders.
InitStart ==
  /\ Idle /\ runs < MaxRuns
  /\ Begin("init")
  /\ results' = <<>> /\ summary' = <<>> /\ idx' = 1 /\ submodules' = <<>>
  /\ force' = FALSE
  /\ IF ~checkProjectRoot(host)
       THEN /\ log' = <<Line(Parent, "Please run this script from the project root directory")>>
            /\ pc' = "exit" /\ exitCode' = 1
            /\ UNCHANGED <<host, serviceFolders>>
     ELSE IF ~isGitRepo(Parent)
       THEN /\ log' = <<Line(Parent, "This is not a git repository")>>
            /\ pc' = "exit" /\ exitCode' = 1
            /\ UNCHANGED <<host, serviceFolders>>
     ELSE IF ~host.gh
       THEN /\ log' = <<Line(Parent, "GitHub CLI (gh) is not installed")>>
            /\ pc' = "exit" /\ exitCode' = 1
            /\ UNCHANGED <<host, serviceFolders>>
     ELSE IF ~host.auth
       THEN /\ log' = <<Line(Parent, "GitHub CLI is not authenticated")>>
            /\ pc' = "exit" /\ exitCode' = 1
            /\ UNCHANGED <<host, serviceFolders>>
     ELSE /\ host' = [host EXCEPT !.services = TRUE]
          /\ serviceFolders' = getServiceFolders
          /\ exitCode' = 0
          /\ IF Len(getServiceFolders) = 0
               THEN log' = <<Line(Parent, "No service folders found")>> /\ pc' = "done"
               ELSE log' = <<>> /\ pc' = "process"
  /\ UNCHANGED <<repo, gitmodules, pointer, index, gitconfig, clock, failures>>
  /\ UNCHANGED featureVars

\* lines 299-303: one turn of the loop over the folders.
InitProcess ==
  /\ pc = "process" /\ idx <= Len(serviceFolders)
  /\ \E fail \in ProcessSites \cup {"none"} :
       LET folderName == serviceFolders[idx]
           out == processServiceFolder(folderName, repo[folderName], repo[Parent],
                                       gitmodules, index, gitconfig, host, clock, fail)
       IN  /\ Injected(fail, out.hit)
           /\ failures' = Spend(fail)
           /\ repo' = [repo EXCEPT ![folderName] = out.r, ![Parent] = out.parent]
           /\ gitmodules' = out.gitmodules
           /\ index' = out.index
           /\ gitconfig' = out.gitconfig
           /\ host' = out.host
           /\ ops' = ops \o out.ops
           /\ results' = Append(results, out.result)
           /\ log' = IF out.result.success THEN log
                     ELSE Append(log, Line(folderName, "Failed to process"))
  /\ idx' = idx + 1
  /\ pc' = IF idx = Len(serviceFolders) THEN "finish" ELSE "process"
  /\ clock' = clock + 1
  /\ UNCHANGED <<pointer, cmd, force, submodules, summary, serviceFolders, prompts,
                 exitCode, runs, prevAllSynced, failuresAtStart, decisions>>
  /\ UNCHANGED featureVars

\* git submodule update: a registered submodule that is not at the staged
\* commit is checked out at it, detached.
GitSubmoduleUpdate(r, rev) ==
  IF r.exists /\ r.git /\ r.rev # rev THEN [r EXCEPT !.head = Detached, !.rev = rev] ELSE r

\* lines 305-365: submodule init and update (a failure is printed and
\* ignored), the backup of .gitmodules, the summary.
InitFinish ==
  /\ pc = "finish"
  /\ \E fail \in {"none", "submoduleInit", "submoduleUpdate"} :
       /\ Injected(fail, TRUE)
       /\ failures' = Spend(fail)
       /\ gitconfig' = IF fail = "submoduleInit" THEN gitconfig
                       ELSE GitSubmoduleInit(gitconfig, gitmodules.entries)
       /\ repo' = IF fail = "none"
                    THEN [d \in Dirs |->
                            IF d \in Services /\ d \in gitconfig' /\ OwnRepo(d)
                              THEN GitSubmoduleUpdate(repo[d], index[d])
                              ELSE repo[d]]
                    ELSE repo
       /\ log' = log \o (IF fail = "none" THEN <<>>
                         ELSE <<Line(Parent, "Failed to initialize/update submodules")>>)
                     \o (IF gitmodules.present THEN <<Line(Parent, "Created backup of .gitmodules")>>
                         ELSE <<Line(Parent, "Could not create .gitmodules backup")>>)
                     \o <<Line(Parent, "Submodule initialization complete")>>
  /\ host' = [host EXCEPT !.backup = @ \/ gitmodules.present]
  /\ summary' = [i \in 1..Len(results) |->
                   [name |-> results[i].folderName,
                    mark |-> IF results[i].success THEN "check" ELSE "cross (failed)"]]
  /\ pc' = "done"
  /\ UNCHANGED <<gitmodules, pointer, index, cmd, force, submodules, idx, results,
                 serviceFolders, ops, prompts, exitCode, clock, runs, prevAllSynced,
                 failuresAtStart, decisions>>
  /\ UNCHANGED featureVars

\* ------------------------------------------------------------- setup: start states
\* Where init and sync can be started: any directory, with or without the
\* project's README.md and services/, inside a repository or not, gh missing
\* or logged out; the service folders empty, plain, or submodules already.
Hosts ==
  {[Project EXCEPT !.readme = rd, !.services = sv, !.gh = g, !.auth = a, !.hosted = hs] :
     rd \in BOOLEAN, sv \in BOOLEAN, g \in BOOLEAN, a \in BOOLEAN,
     hs \in {{}, {RepoId("svc-a", 0)}}}

Folders == {Missing, [Missing EXCEPT !.exists = TRUE], PlainFolder, Added}

SetupInit ==
  /\ host \in Hosts
  /\ gitmodules \in {[present |-> FALSE, entries |-> <<>>]}
                    \cup {[present |-> TRUE, entries |-> e] : e \in Registries}
  /\ repo \in [Dirs -> Folders \cup {ParentRepo, [ParentRepo EXCEPT !.git = FALSE]}]
  /\ repo[Parent] \in {ParentRepo, [ParentRepo EXCEPT !.git = FALSE]}
  /\ \A s \in Services :
       /\ repo[s] \in Folders
       /\ ~host.services => repo[s] = Missing
  /\ gitmodules.present => repo[Parent].git
  /\ pointer = [s \in Services |-> IF s \in Registered(gitmodules.entries) THEN 1 ELSE 0]
  /\ index = pointer
  /\ cmd = "none" /\ pc = "idle"
  /\ force = FALSE /\ submodules = <<>> /\ idx = 1 /\ results = <<>> /\ summary = <<>>
  /\ service = "" /\ feature = "" /\ currentBranch = NoRef /\ defaultBranch = NoRef
  /\ returned = "none" /\ available = {}
  /\ prompts = <<>> /\ prevAllSynced = FALSE /\ failuresAtStart = 0
  /\ log = <<>> /\ ops = <<>> /\ decisions = <<>> /\ exitCode = 0 /\ clock = 0 /\ runs = 0 /\ failures = 0
  /\ serviceFolders = <<>>
  /\ gitconfig = {s \in Registered(gitmodules.entries) : OwnRepo(s)}

SetupNext ==
  \/ InitStart \/ InitProcess \/ InitFinish
  \/ SyncStart \/ SyncRepo \/ SyncParent \/ SyncSummary

SetupSpec == SetupInit /\ [][SetupNext]_vars

\* ------------------------------------------------------------- pull requests
\* A pull request on the host.
PullRequest(repository, number, head, base, draft, title) ==
  [repository |-> repository, number |-> number, head |-> head, base |-> base,
   draft |-> draft, title |-> title]

\* What githubHelpers hands back for a pull request: { number, url }.
PRRef(pr) == [number |-> pr.number, url |-> [repository |-> pr.repository, pull |-> pr.number]]

\* getPRForBranch's null.
NoPR == [number |-> 0, url |-> [repository |-> "", pull |-> 0]]

\* gh pr list --head <branch>: the open pull requests of the repository in
\* dir with that head, newest first.
PRList(prs, dir, branch) ==
  LET Pick[i \in 0..Len(prs)] ==
        IF i = 0 THEN <<>>
        ELSE IF prs[i].repository = dir /\ prs[i].head = branch
          THEN <<prs[i]>> \o Pick[i - 1] ELSE Pick[i - 1]
  IN  Pick[Len(prs)]

\* Mutant: a failed lookup is told apart, it returns a value of its own.
getPRForBranch_tellsFailure(branch, dir, prs, failed) ==
  IF failed THEN [number |-> 0, url |-> [repository |-> "lookup failed", pull |-> 0]]
  ELSE IF Len(PRList(prs, dir, branch)) = 0 THEN NoPR
  ELSE PRRef(PRList(prs, dir, branch)[1])

\* githubHelpers.getPRForBranch: '.[0]' of the list, null when the list is
\* empty and null when gh fails.
getPRForBranch(branch, dir, prs, failed) ==
  IF failed THEN NoPR
  ELSE IF Len(PRList(prs, dir, branch)) = 0 THEN NoPR
  ELSE PRRef(PRList(prs, dir, branch)[1])

\* gh pr create refuses a second open pull request for the same head.
CanCreatePR(prs, dir, head) == Len(PRList(prs, dir, head)) = 0

\* Mutant: the draft option is dropped.
createPR_neverDraft(title, body, base, draft, dir) ==
  [title |-> title, body |-> body, base |-> base, hasBase |-> base # NoRef,
   draft |-> FALSE, dir |-> dir]

\* githubHelpers.createPR: the arguments handed to gh pr create (--base and
\* --draft only when given), for the branch checked out in dir.
createPR(title, body, base, draft, dir) ==
  [title |-> title, body |-> body, base |-> base, hasBase |-> base # NoRef,
   draft |-> draft, dir |-> dir]

\* The pull request the host makes of a request: numbered after the
\* repository's last one, against the named base or else the default branch.
Created(request, prs, head, default) ==
  PullRequest(request.dir, Len(SelectSeq(prs, LAMBDA p : p.repository = request.dir)) + 1,
              head, IF request.hasBase THEN request.base ELSE default,
              request.draft, request.title)

\* gitHelpers.push(dir, true, branch): git push -u origin <branch>.
GitPush(r, branch) ==
  [r EXCEPT !.remote = Bind(@, branch, r.local[branch]),
            !.tracking = Bind(@, branch, r.local[branch]),
            !.upstream = @ \cup {branch}]

\* The feature name a branch name carries.
FeatureOf(branch) ==
  IF \E f \in FeatureNames : featureBranchName(f) = branch
    THEN CHOOSE f \in FeatureNames : featureBranchName(f) = branch
    ELSE branch

\* The title of a service pull request: service name : feature name.
LinkTitle(serviceName, branch) == serviceName \o ": " \o FeatureOf(branch)

\* Calls of createLinkPR that can fail for an outside reason.
LinkSites == {"push", "getPRForBranch", "createPR"}

\* What a pull-request command hands back: the repository and the host's
\* pull requests after it, the pull request returned (NoPR with an error),
\* what it called, and whether the injected failure was met.
Linked(r, prs, pr, error, calls, hit) ==
  [r |-> r, prs |-> prs, pr |-> pr, error |-> error, ops |-> calls, hit |-> hit]

\* createLinkPR(repository, draft): a branch other than the default one must
\* be checked out, with a commit the default branch has not; the branch is
\* pushed, an open pull request with this head is looked up and returned,
\* and only without one a new pull request is asked for.
createLinkPR(serviceName, r, prs, draft, fail) ==
  LET branch == getCurrentBranch(r)
      default == getDefaultBranch(r)
  IN
  IF ~(r.exists /\ r.git) THEN Linked(r, prs, NoPR, "NotFound", <<>>, FALSE)
  ELSE IF branch = Detached \/ branch = default \/ default \notin DOMAIN r.local
          \/ r.local[branch] <= r.local[default]
    THEN Linked(r, prs, NoPR, "Precondition", <<>>, FALSE)
  ELSE IF fail = "push"
    THEN Linked(r, prs, NoPR, "Transient", <<Op(serviceName, "push", branch, FALSE)>>, TRUE)
  ELSE
    LET r1 == GitPush(r, branch)
        c1 == <<Op(serviceName, "push", branch, TRUE)>>
        existing == getPRForBranch(branch, serviceName, prs, fail = "getPRForBranch")
    IN
    IF existing # NoPR THEN Linked(r1, prs, existing, "", c1, FALSE)
    ELSE
      LET request == createPR(LinkTitle(serviceName, branch), "body", NoRef, draft, serviceName)
      IN
      IF fail = "createPR" \/ ~CanCreatePR(prs, serviceName, branch)
        THEN Linked(r1, prs, NoPR, "Transient",
                    c1 \o <<Op(serviceName, "createPR", branch, FALSE)>>,
                    fail \in {"createPR", "getPRForBranch"})
        ELSE Linked(r1, Append(prs, Created(request, prs, branch, default)),
                    PRRef(Created(request, prs, branch, default)), "",
                    c1 \o <<Op(serviceName, "createPR", branch, TRUE)>>, FALSE)

\* Mutant: the process exits with 1 whatever came back.
ExitOf_always(success) == 1

\* index.js 85-88 and 103-106: if (!success) process.exit(1).
ExitOf(success) == IF success THEN 0 ELSE 1

\* The create-pr command (index.js 78-94) around createLinkPR: exit code 1
\* unless a pull request comes back.
LinkPR ==
  /\ Idle /\ runs < MaxRuns
  /\ \E serviceName \in Services, draft \in BOOLEAN, fail \in LinkSites \cup {"none"} :
       LET dir == IF repo[serviceName].exists THEN GitDir(serviceName) ELSE serviceName
           out == createLinkPR(serviceName, repo[dir], host.prs, draft, fail)
       IN  /\ Injected(fail, out.hit)
           /\ failures' = Spend(fail)
           /\ BeginWith("create-pr", out.ops)
           /\ service' = serviceName
           /\ repo' = [repo EXCEPT ![dir] = out.r]
           /\ host' = [host EXCEPT !.prs = out.prs]
           /\ results' = IF out.error = "" THEN <<out.pr>> ELSE <<>>
           /\ returned' = IF out.error = "" THEN "true" ELSE "false"
           /\ log' = IF out.error = "" THEN <<>> ELSE <<Line(serviceName, out.error)>>
           /\ pc' = IF ExitOf(out.error = "") = 0 THEN "done" ELSE "exit"
           /\ exitCode' = ExitOf(out.error = "")
  /\ feature' = "" /\ currentBranch' = NoRef /\ defaultBranch' = NoRef /\ available' = {}
  /\ force' = FALSE /\ submodules' = <<>> /\ idx' = 1 /\ summary' = <<>>
  /\ UNCHANGED <<gitmodules, pointer, index, gitconfig, serviceFolders, clock>>

\* Mutant: every registered repository is entered, advanced or not.
PointerChangeSet_all(entries, recorded, repos) ==
  [i \in 1..Len(entries) |-> [repository |-> entries[i].name,
                              oldRevision |-> recorded[entries[i].path],
                              newRevision |-> repos[entries[i].path].rev]]

\* ------------------------------------------------------------- parent pull request
\* The PointerChangeSet: an entry for each linked repository whose HEAD is
\* not the commit the parent records for it, in registry order.
PointerChangeSet(entries, recorded, repos) ==
  LET Pick[i \in 0..Len(entries)] ==
        IF i = 0 THEN <<>>
        ELSE LET s == entries[i].path IN
             IF repos[s].exists /\ repos[s].git /\ repos[s].rev # recorded[s]
               THEN Append(Pick[i - 1], [repository |-> entries[i].name,
                                         oldRevision |-> recorded[s],
                                         newRevision |-> repos[s].rev])
               ELSE Pick[i - 1]
  IN  Pick[Len(entries)]

\* The branch of the parent pull request: feature/<hint>, or without a hint a
\* name made of the time.
ParentBranch(hint, now) ==
  IF hint # "" THEN featureBranchName(hint) ELSE "submodule-update-" \o ToString(now)

\* The pointers with the change set's new revisions staged.
StagePointers(ix, changes) ==
  [s \in DOMAIN ix |->
     IF \E i \in 1..Len(changes) : changes[i].repository = s
       THEN (changes[CHOOSE i \in 1..Len(changes) : changes[i].repository = s]).newRevision
       ELSE ix[s]]

\* Calls of createParentPR that can fail for an outside reason.
ParentPRSites == {"createBranch", "commit", "push", "createPR"}

\* What createParentPR hands back.
Aggregated(parent, ix, ptr, prs, pr, outcome, calls, hit) ==
  [parent |-> parent, index |-> ix, pointer |-> ptr, prs |-> prs, pr |-> pr,
   outcome |-> outcome, ops |-> calls, hit |-> hit]

\* createParentPR(featureNameHint, draft): nothing to update when the change
\* set is empty; otherwise the pointer changes are staged, a branch is made,
\* the commit enumerates the changes, the branch is pushed and a pull request
\* is asked for.
createParentPR(hint, draft, parent, fail, now) ==
  LET changes == PointerChangeSet(gitmodules.entries, pointer, repo)
      branch == ParentBranch(hint, now)
      default == getDefaultBranch(parent)
  IN
  IF Len(changes) = 0
    THEN Aggregated(parent, index, pointer, host.prs, NoPR, "nothing to update", <<>>, FALSE)
  ELSE
    LET ix == StagePointers(index, changes)
        c1 == <<Op(Parent, "add", "pointers", TRUE)>>
    IN
    IF fail = "createBranch" \/ ~CanCheckoutLocalBranch(parent, branch)
      THEN Aggregated(parent, ix, pointer, host.prs, NoPR, "error",
                      c1 \o <<Op(Parent, "createBranch", branch, FALSE)>>,
                      fail = "createBranch")
    ELSE
      LET p1 == GitCheckoutLocalBranch(parent, branch)
          c2 == c1 \o <<Op(Parent, "createBranch", branch, TRUE)>>
      IN
      IF fail = "commit"
        THEN Aggregated(p1, ix, pointer, host.prs, NoPR, "error",
                        c2 \o <<Op(Parent, "commit", changes, FALSE)>>, TRUE)
      ELSE
        LET p2 == [GitCommit(p1) EXCEPT !.rev = @ + 1, !.local = Bind(@, branch, p1.rev + 1)]
            c3 == c2 \o <<Op(Parent, "commit", changes, TRUE)>>
        IN
        IF fail = "push"
          THEN Aggregated(p2, ix, ix, host.prs, NoPR, "error",
                          c3 \o <<Op(Parent, "push", branch, FALSE)>>, TRUE)
        ELSE
          LET p3 == GitPush(p2, branch)
              c4 == c3 \o <<Op(Parent, "push", branch, TRUE)>>
              request == createPR("Update submodules", changes, default, draft, Parent)
          IN
          IF fail = "createPR" \/ ~CanCreatePR(host.prs, Parent, branch)
            THEN Aggregated(p3, ix, ix, host.prs, NoPR, "error",
                            c4 \o <<Op(Parent, "createPR", branch, FALSE)>>,
                            fail = "createPR")
            ELSE Aggregated(p3, ix, ix,
                            Append(host.prs, Created(request, host.prs, branch, default)),
                            PRRef(Created(request, host.prs, branch, default)), "created",
                            c4 \o <<Op(Parent, "createPR", branch, TRUE)>>, FALSE)

\* What createParentPR returns to the command for an outcome: only an error
\* is not a success.
Succeeded(outcome) == outcome # "error"

\* The parent-pr command (index.js 96-112) around createParentPR.
ParentPR ==
  /\ Idle /\ runs < MaxRuns
  /\ \E hint \in FeatureNames \cup {""}, draft \in BOOLEAN,
        fail \in ParentPRSites \cup {"none"} :
       LET out == createParentPR(hint, draft, repo[Parent], fail, clock)
       IN  /\ Injected(fail, out.hit)
           /\ failures' = Spend(fail)
           /\ BeginWith("parent-pr", out.ops)
           /\ feature' = hint
           /\ repo' = [repo EXCEPT ![Parent] = out.parent]
           /\ index' = out.index
           /\ pointer' = out.pointer
           /\ host' = [host EXCEPT !.prs = out.prs]
           /\ results' = IF out.outcome = "created" THEN <<out.pr>> ELSE <<>>
           /\ returned' = IF Succeeded(out.outcome) THEN "true" ELSE "false"
           /\ log' = <<Line(Parent, out.outcome)>>
           /\ exitCode' = ExitOf(Succeeded(out.outcome))
           /\ pc' = IF ExitOf(Succeeded(out.outcome)) = 0 THEN "done" ELSE "exit"
  /\ service' = "" /\ currentBranch' = NoRef /\ defaultBranch' = NoRef /\ available' = {}
  /\ force' = FALSE /\ submodules' = <<>> /\ idx' = 1 /\ summary' = <<>>
  /\ clock' = clock + 1
  /\ UNCHANGED <<gitmodules, gitconfig, serviceFolders>>

\* ------------------------------------------------------------- pull requests: start states
\* The service repositories a pull request can be asked for: on the default
\* branch, detached, or on a feature branch, with or without a commit of its
\* own, pushed or not.
PRRepos ==
  {Clone(Clean, "main", 1, [n \in {"main"} |-> 1], [n \in {"main"} |-> 1], "main"),
   Clone(Clean, "main", 2, [n \in {"main"} |-> 2], [n \in {"main"} |-> 2], "main"),
   Clone(Clean, Detached, 2, [n \in {"main"} |-> 2], [n \in {"main"} |-> 2], "main"),
   Clone(Clean, "feature/x", 2, [n \in {"main", "feature/x"} |-> 2],
         [n \in {"main"} |-> 2], "main"),
   Clone(Clean, "feature/x", 3, [n \in {"main", "feature/x"} |-> IF n = "main" THEN 2 ELSE 3],
         [n \in {"main"} |-> 2], "main"),
   Clone(Clean, "feature/x", 3, [n \in {"main", "feature/x"} |-> IF n = "main" THEN 2 ELSE 3],
         [n \in {"main", "feature/x"} |-> IF n = "main" THEN 2 ELSE 3], "main"),
   Clone(Clean, "feature/y", 3, [n \in {"main", "feature/y"} |-> IF n = "main" THEN 2 ELSE 3],
         [n \in {"main"} |-> 2], "main"),
   Missing}

PRInit ==
  /\ gitmodules = [present |-> TRUE, entries |-> <<Entry("svc-a"), Entry("svc-b")>>]
  /\ repo \in [Dirs -> PRRepos \cup Parents]
  /\ repo[Parent] \in Parents
  /\ repo["svc-a"] \in PRRepos
  /\ repo["svc-b"] \in {r \in PRRepos : r.exists /\ r.head = "main"}
  /\ pointer = [s \in Services |-> 1]
  /\ index = pointer
  /\ cmd = "none" /\ pc = "idle"
  /\ force = FALSE /\ submodules = <<>> /\ idx = 1 /\ results = <<>> /\ summary = <<>>
  /\ service = "" /\ feature = "" /\ currentBranch = NoRef /\ defaultBranch = NoRef
  /\ returned = "none" /\ available = {}
  /\ prompts = <<>> /\ prevAllSynced = FALSE /\ failuresAtStart = 0
  /\ log = <<>> /\ ops = <<>> /\ decisions = <<>> /\ exitCode = 0 /\ clock = 0 /\ runs = 0 /\ failures = 0
  /\ host = Project /\ serviceFolders = <<>>
  /\ gitconfig = {s \in Registered(gitmodules.entries) : OwnRepo(s)}

PRNext == LinkPR \/ ParentPR

PRSpec == PRInit /\ [][PRNext]_vars

\* ------------------------------------------------------------- hosting adapter
\* The two calls of githubHelpers on their own, as any caller can make them.
\* The arguments of a createPR call.
CreateArgs(title, body, base, draft) ==
  [title |-> title, body |-> body, base |-> base, draft |-> draft]

AdapterTitles == {"svc-a: x", "Update submodules"}
AdapterBodies == {"what changed, how to verify", ""}
AdapterBases == {NoRef, "main", "dev"}
AdapterHeads == {"main", "feature/x", "feature/y"}

\* A call of getPRForBranch(branch, dir); gh may fail.
AdapterLookup ==
  /\ Idle /\ runs < MaxRuns
  /\ \E branch \in AdapterHeads, dir \in Services, failed \in BOOLEAN :
       /\ failed => failures < MaxFailures
       /\ failures' = IF failed THEN failures + 1 ELSE failures
       /\ BeginWith("getPRForBranch", <<>>)
       /\ service' = dir /\ currentBranch' = branch
       /\ results' = <<getPRForBranch(branch, dir, host.prs, failed)>>
       /\ returned' = "true"
  /\ pc' = "done" /\ exitCode' = 0 /\ log' = <<>>
  /\ feature' = "" /\ defaultBranch' = NoRef /\ available' = {}
  /\ force' = FALSE /\ submodules' = <<>> /\ idx' = 1 /\ summary' = <<>>
  /\ UNCHANGED <<repo, gitmodules, pointer, index, host, gitconfig, serviceFolders, clock>>

\* A call of createPR(title, body, base, draft, dir) on the branch checked
\* out in dir; gh pr create may fail, and the call throws then.
AdapterCreate ==
  /\ Idle /\ runs < MaxRuns
  /\ \E title \in AdapterTitles, body \in AdapterBodies, base \in AdapterBases,
        draft \in BOOLEAN, dir \in Services, failed \in BOOLEAN :
       LET request == createPR(title, body, base, draft, dir)
           head == repo[dir].head
           ok == ~failed /\ CanCreatePR(host.prs, dir, head)
           made == Created(request, host.prs, head, getDefaultBranch(repo[dir]))
       IN  /\ failed => failures < MaxFailures
           /\ failures' = IF failed THEN failures + 1 ELSE failures
           /\ BeginWith("createPR", <<Op(dir, "createPR", CreateArgs(title, body, base, draft), ok)>>)
           /\ service' = dir /\ currentBranch' = head
           /\ summary' = <<request>>
           /\ host' = [host EXCEPT !.prs = IF ok THEN Append(@, made) ELSE @]
           /\ results' = IF ok THEN <<PRRef(made)>> ELSE <<>>
           /\ returned' = IF ok THEN "true" ELSE "threw"
  /\ pc' = "done" /\ exitCode' = 0 /\ log' = <<>>
  /\ feature' = "" /\ defaultBranch' = NoRef /\ available' = {}
  /\ force' = FALSE /\ submodules' = <<>> /\ idx' = 1
  /\ UNCHANGED <<repo, gitmodules, pointer, index, gitconfig, serviceFolders, clock>>

\* Two service repositories, one on a feature branch and one on main, and a
\* host without pull requests.
AdapterInit ==
  /\ gitmodules = [present |-> TRUE, entries |-> <<Entry("svc-a"), Entry("svc-b")>>]
  /\ repo = [d \in Dirs |->
               IF d = Parent THEN ParentRepo
               ELSE IF d = "svc-a"
                 THEN Clone(Clean, "feature/x", 3,
                            [n \in {"main", "feature/x"} |-> IF n = "main" THEN 2 ELSE 3],
                            [n \in {"main", "feature/x"} |-> IF n = "main" THEN 2 ELSE 3], "main")
                 ELSE Clone(Clean, "main", 2, [n \in {"main"} |-> 2], [n \in {"main"} |-> 2], "main")]
  /\ pointer = [s \in Services |-> 1]
  /\ index = pointer
  /\ cmd = "none" /\ pc = "idle"
  /\ force = FALSE /\ submodules = <<>> /\ idx = 1 /\ results = <<>> /\ summary = <<>>
  /\ service = "" /\ feature = "" /\ currentBranch = NoRef /\ defaultBranch = NoRef
  /\ returned = "none" /\ available = {}
  /\ prompts = <<>> /\ prevAllSynced = FALSE /\ failuresAtStart = 0
  /\ log = <<>> /\ ops = <<>> /\ decisions = <<>> /\ exitCode = 0 /\ clock = 0 /\ runs = 0 /\ failures = 0
  /\ host = Project /\ serviceFolders = <<>>
  /\ gitconfig = {s \in Registered(gitmodules.entries) : OwnRepo(s)}

AdapterNext == AdapterLookup \/ AdapterCreate

AdapterSpec == AdapterInit /\ [][AdapterNext]_vars

\* ------------------------------------------------------------- claims: helpers
\* The loop of a sync is about to reconcile the submodule at this path.
Reconciling(path) == pc = "sync" /\ idx <= Len(submodules) /\ submodules[idx].path = path

\* A line was printed.
Printed(about, msg) == \E i \in 1..Len(log) : log[i] = Line(about, msg)

\* A repository-changing call of this kind was made (or tried) in the command.
Called(dir, names) == \E i \in 1..Len(ops) : ops[i].dir = dir /\ ops[i].op \in names

\* The adapter operation of a call: gitHelpers.checkout is one operation,
\* called for the default branch (line 100) and for the feature branch (141).
OperationOf(call) == IF call.op = "checkoutFeature" THEN "checkout" ELSE call.op

\* The three branch actions of createFeatureBranch.
BranchActions == {"checkoutFeature", "checkoutBranch", "createBranch"}

\* ------------------------------------------------------------- C1
\* C1: reconciling a linked repository whose tree is dirty with force=false
\* changes nothing in it and makes no repository-changing call (no stash,
\* fetch, pull, checkout), and the call returns not-success with the
\* "Skipping" warning (when the status query itself throws, nothing is
\* returned at all, and nothing was changed either).
C1_DirtyUnforcedIsSkipped ==
  [][\A s \in Services :
       (Reconciling(s) /\ ~force /\ OwnRepo(s) /\ ~IsClean(repo[s]))
         => /\ repo' = repo
            /\ ops' = ops
            /\ pc' # "exit" =>
                 /\ results' = Append(results, [name |-> s, path |-> s, success |-> FALSE])
                 /\ log'[Len(log')] = Line(s, "Skipping")
                 /\ failures' = failures]_vars

C1_Witness ==
  /\ cmd = "sync" /\ ~force /\ pc = "done"
  /\ \E i \in 1..Len(results) :
       /\ ~results[i].success
       /\ ~IsClean(repo[results[i].path])
       /\ repo[results[i].path].untracked
       /\ Printed(results[i].name, "Skipping")

\* ------------------------------------------------------------- C2
\* C2: a sync run that has repositories to reconcile never ends before each
\* of them has its result, whatever adapter call fails on the way.
C2_FailureNeverAbortsRun ==
  (cmd = "sync" /\ pc \in {"done", "exit"} /\ gitmodules.present)
    => Len(results) = Len(submodules)

\* ------------------------------------------------------------- C3
\* C3: reconciling a dirty linked repository with force=true, the stash call
\* not failing, leaves the tree clean and one more stash entry, which applied
\* to a clean tree gives back the dirty state that was there.
C3_ForcedStashRecoverable ==
  [][\A s \in Services :
       (Reconciling(s) /\ force /\ OwnRepo(s) /\ ~IsClean(repo[s])
          /\ \E i \in 1..Len(ops') : ops'[i] = Op(s, "stash", "Auto-stash before sync", TRUE))
         => /\ IsClean(repo'[s])
            /\ Len(repo'[s].stash) = Len(repo[s].stash) + 1
            /\ StashApplied(Clean, repo'[s].stash[1]) = Tree(repo[s])]_vars

C5_DirtyTreeStopsNewFeature ==
  [][\A s \in Services :
       (Idle /\ runs' = runs + 1 /\ service' = s /\ feature' # ""
          /\ OwnRepo(s) /\ ~IsClean(repo[s]))
         => /\ pc' = "exit" /\ exitCode' = 1
            /\ repo' = repo
            /\ ops' = <<>>
            /\ returned' # "true"
            /\ failures' = failures =>
                 /\ returned' = "false"
                 /\ log' = <<Line(s, "Uncommitted changes detected"),
                             Line(s, "Please commit or stash your changes first")>>]_vars

C5_Witness ==
  /\ cmd = "new-feature" /\ pc = "exit" /\ returned = "false"
  /\ service \in Services /\ feature # ""
  /\ OwnRepo(service) /\ ~IsClean(repo[service])
  /\ Printed(service, "Uncommitted changes detected")

\* ------------------------------------------------------------- C6
\* C6: new-feature on a service path that is missing or holds no repository
\* of its own stops with an error, having made no repository-changing call;
\* unless one of its queries fails, the error is the returned false.
C6_NotARepositoryStops ==
  (cmd = "new-feature" /\ service \in Services /\ feature # "" /\ ~OwnRepo(service))
    => /\ pc = "exit" /\ returned # "true" /\ ops = <<>>
       /\ failures = failuresAtStart => returned = "false"

\* ------------------------------------------------------------- C7
\* C7: when new-feature returns true, the repository at the service path is
\* checked out on feature/<featureName>, by whichever of the three branch
\* actions was the last call.
C7_SuccessLeavesFeatureCheckedOut ==
  (cmd = "new-feature" /\ returned = "true")
    => /\ pc = "done"
       /\ repo[GitDir(service)].head = "feature/" \o feature
       /\ Len(ops) > 0
       /\ ops[Len(ops)].op \in BranchActions /\ ops[Len(ops)].ok

C7_Witness ==
  /\ cmd = "new-feature" /\ returned = "true"
  /\ ops[Len(ops)].op = "checkoutFeature"
  /\ repo[service].head = "feature/x"

\* ------------------------------------------------------------- C8
\* C8: every branch action of new-feature names the branch "feature/" +
\* featureName, whatever the service, the branch it started on and the
\* branches that exist; on success that branch exists locally and is checked
\* out.
C8_BranchNameIsFeatureSlashName ==
  cmd = "new-feature"
    => /\ \A i \in 1..Len(ops) :
            ops[i].op \in BranchActions => ops[i].arg = "feature/" \o feature
       /\ returned = "true"
            => /\ ("feature/" \o feature) \in DOMAIN repo[GitDir(service)].local
               /\ getCurrentBranch(repo[GitDir(service)]) = "feature/" \o feature

C8_Witness ==
  /\ cmd = "new-feature" /\ returned = "true"
  /\ currentBranch = Detached /\ feature = "y"
  /\ ops[Len(ops)] = Op(service, "createBranch", "feature/y", TRUE)

C10_ExistingBranchNeedsConfirmation ==
  [][(pc = "branch" /\ ("feature/" \o feature) \in DOMAIN repo[GitDir(service)].local)
       => /\ \A i \in (Len(ops) + 1)..Len(ops') : ops'[i].op = "checkoutFeature"
          /\ ops' # ops => prompts' = <<Prompt(SwitchPrompt, TRUE)>>
          /\ returned' # "threw" => Len(prompts') = 1
          /\ prompts' = <<Prompt(SwitchPrompt, FALSE)>> =>
               /\ repo' = repo
               /\ ops' = ops
               /\ returned' = "false" /\ exitCode' = 1
               /\ repo'[GitDir(service)].head # "feature/" \o feature]_vars

C10_Witness ==
  /\ cmd = "new-feature" /\ returned = "false"
  /\ prompts = <<Prompt(SwitchPrompt, FALSE)>>
  /\ currentBranch = "feature/x" /\ feature = "x"
  /\ repo[service].head = defaultBranch

\* ------------------------------------------------------------- C11
\* C11: new-feature reaches its branch decision only after a fetch that
\* worked, then (when it was not on the default branch) a checkout of the
\* default branch, then a pull of the default branch that worked; at the
\* decision the repository is on the default branch at the remote's commit,
\* and a feature branch that is created starts at that commit.
C11_BranchDecisionAfterUpdate ==
  cmd = "new-feature" =>
    LET r == repo[GitDir(service)] IN
    /\ (pc = "branch" \/ \E i \in 1..Len(ops) : ops[i].op \in BranchActions)
         => /\ Len(ops) >= 2
            /\ ops[1] = Op(service, "fetch", "origin", TRUE)
            /\ \E n \in 2..3 :
                 /\ n <= Len(ops)
                 /\ ops[n] = Op(service, "pull", defaultBranch, TRUE)
                 /\ n = 3 => ops[2] = Op(service, "checkout", defaultBranch, TRUE)
                 /\ n = 2 => currentBranch = defaultBranch
                 /\ \A i \in 1..Len(ops) : ops[i].op \in BranchActions => i = n + 1
    /\ pc = "branch"
         => /\ r.head = defaultBranch
            /\ r.rev = r.remote[defaultBranch]
            /\ r.tracking[defaultBranch] = r.remote[defaultBranch]
    /\ (Len(ops) > 0 /\ ops[Len(ops)] = Op(service, "createBranch", featureBranchName(feature), TRUE))
         => /\ r.local[featureBranchName(feature)] = r.remote[defaultBranch]
            /\ r.rev = r.remote[defaultBranch]

C11_Witness ==
  /\ cmd = "new-feature" /\ returned = "true"
  /\ currentBranch = "dev" /\ defaultBranch = "main"
  /\ ops = <<Op(service, "fetch", "origin", TRUE), Op(service, "checkout", "main", TRUE),
             Op(service, "pull", "main", TRUE), Op(service, "createBranch", "feature/y", TRUE)>>
  /\ repo[service].local["feature/y"] = 2

\* ------------------------------------------------------------- C12
\* C12: a sync run that has ended holds exactly one result for each
\* repository of the registry, in the registry's order.
C12_OneResultPerRepositoryInOrder ==
  (cmd = "sync" /\ pc \in {"done", "exit"} /\ gitmodules.present)
    => /\ Len(results) = Len(gitmodules.entries)
       /\ \A i \in 1..Len(results) :
            /\ results[i].name = gitmodules.entries[i].name
            /\ results[i].path = gitmodules.entries[i].path

\* ------------------------------------------------------------- C13
\* C13: in the summary of a sync run, a repository that was skipped for its
\* dirty tree is reported differently from a repository whose reconciliation
\* failed, and neither is reported as synced.
C13_SkippedDistinctFromFailed ==
  (cmd = "sync" /\ pc = "done" /\ Len(summary) = Len(results))
    => \A i, j \in 1..Len(results) :
         (/\ Printed(results[i].name, "Skipping")
          /\ ~results[j].success /\ ~Printed(results[j].name, "Skipping"))
           => /\ summary[i].mark # summary[j].mark
              /\ summary[i].mark # "check"

\* ------------------------------------------------------------- C14
\* C14: reconciling a clean linked repository that is on a named branch b
\* calls fetch and then pull of b from origin, and nothing else (no
\* checkout, no stash); the repository stays on b, and when the result is
\* success both calls worked and b is at the remote's commit.
C14_AttachedFetchThenPullSameBranch ==
  [][\A s \in Services :
       (Reconciling(s) /\ OwnRepo(s) /\ IsClean(repo[s]) /\ repo[s].head # Detached)
         => LET b == repo[s].head
                new == SubSeq(ops', Len(ops) + 1, Len(ops'))
            IN  /\ repo'[s].head = b
                /\ \A i \in 1..Len(new) : new[i].op \in {"fetch", "pull"}
                /\ pc' # "exit" =>
                     /\ Len(new) \in 1..2
                     /\ new[1].op = "fetch" /\ new[1].arg = "origin"
                     /\ Len(new) = 2 => (new[1].ok /\ new[2].op = "pull" /\ new[2].arg = b)
                     /\ results'[Len(results')].success
                          => /\ new = <<Op(s, "fetch", "origin", TRUE), Op(s, "pull", b, TRUE)>>
                             /\ repo'[s].rev = repo[s].remote[b]
                             /\ repo'[s].local[b] = repo[s].remote[b]]_vars

C14_Witness ==
  /\ cmd = "sync" /\ pc = "done" /\ AllSynced
  /\ ops[1] = Op("svc-a", "fetch", "origin", TRUE)
  /\ ops[2] = Op("svc-a", "pull", "dev", TRUE)
  /\ repo["svc-a"].head = "dev" /\ repo["svc-a"].rev = 2
  /\ \A i \in 1..Len(ops) : ops[i].op # "checkout"

\* ------------------------------------------------------------- C15
\* C15: reconciling a linked repository with a detached HEAD (its tree clean,
\* or the update forced) checks out the branch getDefaultBranch names, after
\* the fetch, and pulls that branch only after the checkout worked; when the
\* result is success, both worked and the repository is on the default
\* branch at the remote's commit.
C15_DetachedChecksOutDefaultThenPulls ==
  [][\A s \in Services :
       (Reconciling(s) /\ OwnRepo(s) /\ repo[s].head = Detached
          /\ (IsClean(repo[s]) \/ force))
         => LET d == getDefaultBranch(GitFetch(repo[s]))
                new == SubSeq(ops', Len(ops) + 1, Len(ops'))
                n == Len(new)
            IN  /\ \A i \in 1..n :
                     /\ new[i].op = "checkout"
                          => /\ new[i].arg = d
                             /\ i > 1 /\ new[i - 1] = Op(s, "fetch", "origin", TRUE)
                     /\ new[i].op = "pull"
                          => /\ new[i].arg = d
                             /\ i > 1 /\ new[i - 1] = Op(s, "checkout", d, TRUE)
                /\ (pc' # "exit" /\ results'[Len(results')].success)
                     => /\ n >= 3
                        /\ new[n - 1] = Op(s, "checkout", d, TRUE)
                        /\ new[n] = Op(s, "pull", d, TRUE)
                        /\ repo'[s].head = d
                        /\ repo'[s].rev = repo[s].remote[d]]_vars

C15_Witness ==
  /\ cmd = "sync" /\ pc = "done" /\ AllSynced
  /\ repo["svc-a"].originHead = NoRef
  /\ ops[1] = Op("svc-a", "fetch", "origin", TRUE)
  /\ ops[2] = Op("svc-a", "checkout", "main", TRUE)
  /\ ops[3] = Op("svc-a", "pull", "main", TRUE)
  /\ repo["svc-a"].head = "main" /\ repo["svc-a"].rev = 2

\* ------------------------------------------------------------- C16
\* C16: in a sync run, every step works on one repository: a linked
\* repository changes, and calls are made on it, only in the loop's turn for
\* it, which starts when the turns before it have returned their results;
\* the parent's index and tree change, and add/commit are called, only once
\* the turn for the last linked repository has returned its result.
C16_SyncStepsAreSequential ==
  [][cmd = "sync" =>
       LET new == SubSeq(ops', Len(ops) + 1, Len(ops')) IN
       /\ \A s \in Services :
            (repo'[s] # repo[s] \/ \E i \in 1..Len(new) : new[i].dir = s)
              => (Reconciling(s) /\ Len(results) = idx - 1)
       /\ (index' # index \/ pointer' # pointer \/ repo'[Parent] # repo[Parent]
             \/ \E i \in 1..Len(new) : new[i].dir = Parent)
            => /\ pc = "parent"
               /\ Len(results) = Len(submodules)
               /\ \A i \in 1..Len(new) : new[i].dir = Parent
       /\ pc = "sync" => idx' \in {idx, idx + 1}]_vars

C16_Witness ==
  /\ cmd = "sync" /\ pc = "done" /\ Len(results) = 2 /\ Len(ops) >= 5
  /\ ops[1].dir = "svc-a" /\ ops[Len(ops) - 1].dir = "svc-b"
  /\ ops[Len(ops)] = Op(Parent, "add", ".", TRUE)
  /\ index["svc-a"] = 2 /\ index["svc-b"] = 2

\* ------------------------------------------------------------- C17
\* C17: a sync started where there is no .gitmodules, and an init started
\* outside the project root, outside a git repository, without gh or with
\* gh logged out, ends at once with exit code 1 and one error line, having
\* changed no repository, no .gitmodules, no index, no .git/config and no
\* file, and having made no repository-changing call.
C17_HardPreconditionStopsBeforeMutation ==
  [][(/\ Idle /\ runs' = runs + 1
      /\ \/ cmd' = "sync" /\ ~gitmodules.present
         \/ cmd' = "init" /\ ~(host.readme /\ host.services /\ repo[Parent].git
                                /\ host.gh /\ host.auth))
       => /\ pc' = "exit" /\ exitCode' = 1
          /\ UNCHANGED <<repo, gitmodules, pointer, index, gitconfig, host>>
          /\ ops' = <<>>
          /\ Len(log') = 1]_vars

C17_Witness ==
  /\ cmd = "init" /\ pc = "exit" /\ exitCode = 1
  /\ host.readme /\ host.services /\ repo[Parent].git /\ host.gh /\ ~host.auth
  /\ repo["svc-a"] = PlainFolder
  /\ log = <<Line(Parent, "GitHub CLI is not authenticated")>>

\* ------------------------------------------------------------- C18
\* C18: a sync run in which the reconciliation of a repository failed goes to
\* its end, with the parent step made and a summary line for every
\* repository, and ends with a result that differs from the one of a run
\* without failure (exit code 0).
C18_PartialFailureIsSignalled ==
  (cmd = "sync" /\ pc = "done" /\ \E i \in 1..Len(results) : ~results[i].success)
    => /\ Len(results) = Len(submodules)
       /\ Len(summary) = Len(results)
       /\ exitCode # 0


\* C19: a create-pr run on a branch that already has an open pull request
\* with this head asks for no creation, leaves the host's pull requests as
\* they are and, once the branch is pushed, returns that same pull request.
C19_ExistingPRReturnedNoDuplicateRequest ==
  [][(cmd' = "create-pr" /\ runs' = runs + 1
      /\ repo[service'].exists
      /\ Len(PRList(host.prs, service', repo[service'].head)) > 0)
     => /\ ~\E i \in 1..Len(ops') : ops'[i].op = "createPR"
        /\ host'.prs = host.prs
        /\ (\E i \in 1..Len(ops') : ops'[i].op = "push" /\ ops'[i].ok)
             => results' = <<PRRef(PRList(host.prs, service', repo[service'].head)[1])>>]_vars


C21_ChangeSetIsExactlyTheAdvanced ==
  [][(cmd' = "parent-pr" /\ runs' = runs + 1
      /\ \E i \in 1..Len(ops') : ops'[i].op = "commit" /\ ops'[i].ok)
     => LET changes == ops'[CHOOSE i \in 1..Len(ops') : ops'[i].op = "commit"].arg
            Advanced == {s \in Registered(gitmodules.entries) :
                           repo[s].exists /\ repo[s].git /\ repo[s].rev # pointer[s]}
        IN  /\ {changes[i].repository : i \in 1..Len(changes)} = Advanced
            /\ Len(changes) = Cardinality(Advanced)
            /\ \A i \in 1..Len(changes) :
                 /\ changes[i].oldRevision = pointer[changes[i].repository]
                 /\ changes[i].newRevision = repo[changes[i].repository].rev
            /\ \A s \in Services :
                 pointer'[s] = IF s \in Advanced THEN repo[s].rev ELSE pointer[s]
            /\ index' = pointer'
            /\ repo'[Parent].modified = repo[Parent].modified
            /\ repo'[Parent].untracked = repo[Parent].untracked
            /\ ~repo'[Parent].staged]_vars

\* A parent-pr run has committed with svc-a unchanged and svc-b advanced
\* from 1 to 2, while the parent has a modified file of its own.
C21_Witness ==
  /\ cmd = "parent-pr" /\ pc = "done" /\ Len(results) = 1
  /\ \E i \in 1..Len(ops) :
       /\ ops[i].op = "commit" /\ ops[i].ok
       /\ ops[i].arg = <<[repository |-> "svc-b", oldRevision |-> 1, newRevision |-> 2]>>
  /\ repo["svc-a"].exists /\ repo["svc-a"].rev = 1 /\ pointer["svc-a"] = 1
  /\ pointer["svc-b"] = 2
  /\ repo[Parent].modified


\* C22: in a sync run a stash call is made on a repository only when the
\* run is forced and that repository's tree is dirty as the call is made;
\* no repository is stashed twice in one run; and in a run that is not
\* forced no repository's stash list changes.
C22_StashOnlyForcedAndDirtyOncePerRepo ==
  [][cmd' = "sync"
     => /\ \A i \in (Len(ops) + 1)..Len(ops') :
             ops'[i].op = "stash"
               => /\ force
                  /\ \E s \in Services :
                       /\ ops'[i].dir = s
                       /\ repo[s].modified \/ repo[s].staged \/ repo[s].untracked
        /\ \A i, j \in 1..Len(ops') :
             (ops'[i].op = "stash" /\ ops'[j].op = "stash" /\ ops'[i].dir = ops'[j].dir)
               => i = j
        /\ ~force' => \A d \in Dirs : repo'[d].stash = repo[d].stash]_vars

\* A forced sync has stashed a dirty repository, and went on to stash a
\* second one.
C22_Witness ==
  /\ cmd = "sync" /\ force
  /\ \E i, j \in 1..Len(ops) :
       /\ ops[i].op = "stash" /\ ops[i].ok /\ ops[j].op = "stash" /\ ops[i].dir # ops[j].dir
  /\ \E s \in Services : Len(repo[s].stash) = 1


\* C23: the branch a sync checks out for a detached repository is the
\* remote's symbolic default when origin/HEAD is set, otherwise main when
\* the remote has a branch main, otherwise master when the remote has a
\* branch master, and main when it has neither.
C23_DefaultBranchResolutionOrder ==
  [][(cmd' = "sync" /\ failures' = failures)
     => \A i \in (Len(ops) + 1)..Len(ops') :
          ops'[i].op = "checkout"
            => \E s \in Services :
                 /\ ops'[i].dir = s
                 /\ ops'[i].arg =
                      IF repo[s].originHead # NoRef THEN repo[s].originHead
                      ELSE IF "main" \in DOMAIN repo[s].remote THEN "main"
                      ELSE IF "master" \in DOMAIN repo[s].remote THEN "master"
                      ELSE "main"]_vars


\* C24: no step of a sync run stages or commits a file of the parent's own
\* tree: what is modified stays modified, what is untracked stays
\* untracked, and nothing of the parent's own becomes staged.
C24_ParentStepStagesOnlyPointers ==
  [][(cmd = "sync" /\ cmd' = "sync" /\ runs' = runs)
     => /\ repo'[Parent].modified = repo[Parent].modified
        /\ repo'[Parent].untracked = repo[Parent].untracked
        /\ repo'[Parent].staged = repo[Parent].staged]_vars


\* C25: the parent step of a sync run leaves the parent's staged and
\* committed pointers as they are, and calls neither add nor commit, when
\* no linked repository advanced during the run: every result is a failure
\* (skipped or failed), or the repository was up to date already.
C25_ParentTouchedOnlyIfARepoAdvanced ==
  [][(pc = "parent" /\ failures' = failures
      /\ \A i \in 1..Len(results) : ~results[i].success)
     => /\ index' = index /\ pointer' = pointer
        /\ \A i \in (Len(ops) + 1)..Len(ops') : ops'[i].op \notin {"add", "commit"}]_vars


C27_StashMessageNamesTimeAndRepository ==
  /\ \A s \in Services : \A i \in 1..Len(repo[s].stash) :
       LET m == repo[s].stash[i].message
       IN  /\ "time" \in DOMAIN m
           /\ "repository" \in DOMAIN m
           /\ m.repository = s
  /\ \A s, t \in Services : \A i \in 1..Len(repo[s].stash), j \in 1..Len(repo[t].stash) :
       repo[s].stash[i].message = repo[t].stash[j].message => (s = t /\ i = j)


\* C28: every decision a sync or a new-feature takes after a changing call
\* (stash, fetch, checkout, pull) on a repository acts on a value read from
\* the repository after that call, not on one read before it.
C28_DecisionsActOnFreshReads ==
  \A i \in 1..Len(decisions) : decisions[i].readAt = decisions[i].usedAt


\* C29 as stated: within one invocation each of stash, fetch, checkout and
\* pull is attempted at most once per repository.
C29_EachOperationOncePerRepository ==
  \A i, j \in 1..Len(ops) :
    (/\ ops[i].dir = ops[j].dir
     /\ OperationOf(ops[i]) \in {"stash", "fetch", "checkout", "pull"}
     /\ OperationOf(ops[i]) = OperationOf(ops[j]))
      => i = j

\* C29: within one invocation no call is made twice on a repository with
\* the same operation and the same argument (each of stash, fetch and pull
\* at most once, checkout at most once per branch), and a call that failed
\* is the last one made on that repository: nothing is retried.
C29_NoOperationIsRetried ==
  \A i, j \in 1..Len(ops) :
    (i < j /\ ops[i].dir = ops[j].dir)
      => /\ ops[i].ok
         /\ OperationOf(ops[i]) \in {"stash", "fetch", "pull"} => OperationOf(ops[j]) # OperationOf(ops[i])
         /\ OperationOf(ops[i]) = OperationOf(ops[j]) => ops[i].arg # ops[j].arg

\* A new-feature has checked out the default branch, pulled it and then
\* checked out the feature branch that was there already; and (in another
\* behaviour) a failed call ended a run.
C29_Witness ==
  /\ cmd = "new-feature" /\ pc = "done"
  /\ \E i, j \in 1..Len(ops) :
       /\ i < j
       /\ ops[i] = Op("svc-a", "checkout", "main", TRUE)
       /\ ops[j] = Op("svc-a", "checkoutFeature", "feature/x", TRUE)


\* C30: a turn of a forced sync on a dirty repository in which the stash
\* call worked, whatever came after it (success, or a failed fetch,
\* checkout or pull), has made no stash pop or apply, has left the stash
\* list longer by exactly one entry, and has left none of the formerly
\* uncommitted changes in the working tree: they are in the new entry only.
C30_ForcedSyncKeepsChangesInStashOnly ==
  [][\A s \in Services :
       (/\ Reconciling(s) /\ OwnRepo(s) /\ force
        /\ repo[s].modified \/ repo[s].staged \/ repo[s].untracked
        /\ \E i \in (Len(ops) + 1)..Len(ops') :
             ops'[i] = Op(s, "stash", StashMessage(clock).text, TRUE))
         => /\ \A i \in (Len(ops) + 1)..Len(ops') : ops'[i].op \notin {"pop", "apply"}
            /\ Len(repo'[s].stash) = Len(repo[s].stash) + 1
            /\ ~(repo'[s].modified \/ repo'[s].staged \/ repo'[s].untracked)
            /\ repo'[s].stash[1].modified = repo[s].modified
            /\ repo'[s].stash[1].staged = repo[s].staged
            /\ repo'[s].stash[1].untracked = repo[s].untracked]_vars


\* ------------------------------------------------------------- C31
\* C31: in the turn of a sync for a repository, every pull and every
\* checkout comes after a fetch that worked, and the default branch is
\* resolved after it too; when the fetch fails it is the turn's last call,
\* the result is a failure and the repository's branch and commit are as
\* they were.
C31_FetchPrecedesPullCheckoutAndResolution ==
  [][\A s \in Services :
       (Reconciling(s) /\ OwnRepo(s))
         => LET new == SubSeq(ops', Len(ops) + 1, Len(ops'))
                seen == SubSeq(decisions', Len(decisions) + 1, Len(decisions'))
            IN  /\ \A i \in 1..Len(new) :
                     new[i].op \in {"pull", "checkout"}
                       => \E k \in 1..(i - 1) : new[k] = Op(s, "fetch", "origin", TRUE)
                /\ \A i \in 1..Len(seen) :
                     seen[i].field = "defaultBranch"
                       => /\ seen[i].readAt >= 1
                          /\ new[seen[i].readAt] = Op(s, "fetch", "origin", TRUE)
                /\ (\E k \in 1..Len(new) : new[k] = Op(s, "fetch", "origin", FALSE))
                     => /\ new[Len(new)] = Op(s, "fetch", "origin", FALSE)
                        /\ \A i \in 1..Len(new) : new[i].op \notin {"pull", "checkout"}
                        /\ ~results'[Len(results')].success
                        /\ repo'[s].head = repo[s].head /\ repo'[s].rev = repo[s].rev]_vars

\* A sync is over in which the fetch of the detached svc-a failed: it is
\* still detached at its commit, and nothing was pulled or checked out in it.
C31_Witness ==
  /\ cmd = "sync" /\ pc = "done"
  /\ \E i \in 1..Len(ops) : ops[i] = Op("svc-a", "fetch", "origin", FALSE)
  /\ ~Called("svc-a", {"pull", "checkout"})
  /\ repo["svc-a"].head = Detached /\ repo["svc-a"].rev = 1
  /\ ~results[1].success

\* ------------------------------------------------------------- C32
\* C32: when, for a detached repository, the checkout of the default branch
\* worked and the pull after it failed, the result is a failure and the
\* repository stays on the default branch: nothing checks out the former
\* detached position again.
C32_FailedPullLeavesDefaultBranchCheckedOut ==
  [][\A s \in Services :
       (/\ Reconciling(s) /\ OwnRepo(s) /\ repo[s].head = Detached
        /\ \E i \in (Len(ops) + 1)..(Len(ops') - 1) :
             /\ ops'[i].dir = s /\ ops'[i].op = "checkout" /\ ops'[i].ok
             /\ ops'[i + 1].op = "pull" /\ ~ops'[i + 1].ok)
         => /\ ~results'[Len(results')].success
            /\ ops'[Len(ops')].op = "pull"
            /\ repo'[s].head = ops'[Len(ops') - 1].arg
            /\ repo'[s].head # Detached
            /\ repo'[s].head \in DOMAIN repo'[s].local]_vars

\* A sync is over in which svc-a was detached, main was checked out and the
\* pull failed: svc-a is on main, at the commit it was at.
C32_Witness ==
  /\ cmd = "sync" /\ pc = "done"
  /\ \E i \in 1..(Len(ops) - 1) :
       /\ ops[i] = Op("svc-a", "checkout", "main", TRUE)
       /\ ops[i + 1] = Op("svc-a", "pull", "main", FALSE)
  /\ repo["svc-a"].head = "main" /\ repo["svc-a"].rev = 1
  /\ ~results[1].success


\* ------------------------------------------------------------- C33
\* C33: a new-feature that started on a branch other than the default one,
\* checked the default branch out and then ended without success (failed
\* pull, declined switch, failed checkout or creation of the feature branch,
\* or a throw) leaves the repository on the default branch, not on the
\* branch it started on.
C33_NoRollbackToStartingBranch ==
  (/\ cmd = "new-feature" /\ pc = "exit"
   /\ \E i \in 1..Len(ops) : ops[i] = Op(service, "checkout", defaultBranch, TRUE))
    => /\ currentBranch # defaultBranch
       /\ repo[GitDir(service)].head = defaultBranch
       /\ repo[GitDir(service)].head # currentBranch

\* A new-feature that started on dev has checked out main, and ended when
\* the operator declined to switch to the existing feature branch.
C33_Witness ==
  /\ cmd = "new-feature" /\ pc = "exit" /\ returned = "false"
  /\ currentBranch = "dev"
  /\ Len(ops) >= 2 /\ ops[2] = Op("svc-a", "checkout", "main", TRUE)
  /\ prompts = <<Prompt(SwitchPrompt, FALSE)>>
  /\ repo["svc-a"].head = "main"


\* ------------------------------------------------------------- C34
\* C34: a new-feature makes at most one of the three branch actions
\* (checkout of the local feature branch, checkout -b from the remote one,
\* creation), and exactly one, which worked, when it succeeds; when the
\* feature branch exists locally, with or without a remote one, the action
\* is the checkout of the local branch.
C34_OneBranchActionLocalFirst ==
  [][cmd' = "new-feature"
     => LET acts == {i \in 1..Len(ops') : ops'[i].op \in BranchActions}
            featureBranch == "feature/" \o feature
        IN  /\ Cardinality(acts) <= 1
            /\ pc' = "done" => \E i \in acts : ops'[i].ok /\ i = Len(ops')
            /\ (pc = "branch" /\ featureBranch \in DOMAIN repo[GitDir(service)].local)
                 => \A i \in acts : ops'[i].op = "checkoutFeature"
            /\ (pc = "branch" /\ featureBranch \notin DOMAIN repo[GitDir(service)].local)
                 => \A i \in acts : ops'[i].op =
                      IF featureBranch \in DOMAIN repo[GitDir(service)].tracking
                        THEN "checkoutBranch" ELSE "createBranch"]_vars

\* A new-feature has succeeded by checking out the local feature branch
\* while the remote had a branch of that name too.
C34_Witness ==
  /\ cmd = "new-feature" /\ pc = "done" /\ returned = "true"
  /\ ops[Len(ops)] = Op("svc-a", "checkoutFeature", "feature/x", TRUE)
  /\ "feature/x" \in DOMAIN repo["svc-a"].tracking
  /\ repo["svc-a"].head = "feature/x"
  /\ Cardinality({i \in 1..Len(ops) : ops[i].op \in BranchActions}) = 1


\* ------------------------------------------------------------- C35
\* C35: a sync whose list of submodules is empty (.gitmodules has no entry,
\* or cannot be read) ends there: no call is made on any repository, the
\* parent's staged and committed pointers and its tree are untouched, no
\* prompt is put, and the run is over with exit code 0.
C35_EmptyRegistryEndsTheRun ==
  [][(cmd' = "sync" /\ runs' = runs + 1 /\ pc' # "exit" /\ Len(submodules') = 0)
     => /\ pc' = "done" /\ exitCode' = 0
        /\ ops' = <<>> /\ prompts' = <<>> /\ results' = <<>>
        /\ repo' = repo /\ index' = index /\ pointer' = pointer
        /\ log'[Len(log')] = Line(Parent, "No submodules found")]_vars

\* A sync has ended with "No submodules found" although .gitmodules has an
\* entry: the file could not be read.
C35_Witness ==
  /\ cmd = "sync" /\ pc = "done" /\ submodules = <<>>
  /\ Len(gitmodules.entries) > 0
  /\ Printed(Parent, "No submodules found")
  /\ ops = <<>> /\ index = pointer


\* ------------------------------------------------------------- C36
\* C36: a failure in the parent step of a sync (add, status, the submodule
\* status for the message, commit) is printed and goes no further: the run
\* goes on to the summary with the results as recorded and exit code 0, and
\* the summary has one line for every result, in order, marked by it.
C36_ParentFailureIsContained ==
  [][/\ (pc = "parent" /\ failures' = failures + 1)
          => /\ pc' = "summary" /\ results' = results /\ exitCode' = 0
             /\ log'[Len(log')] = Line(Parent, "Failed to update parent repo")
             /\ pointer' = pointer
     /\ pc = "summary"
          => /\ pc' = "done" /\ results' = results /\ exitCode' = 0
             /\ Len(summary') = Len(results)
             /\ \A i \in 1..Len(results) :
                  /\ summary'[i].name = results[i].name
                  /\ (summary'[i].mark = "check") = results[i].success]_vars

\* A sync is over in which svc-a was synced and the commit of the parent
\* failed: the summary shows svc-a as synced, the exit code is 0.
C36_Witness ==
  /\ cmd = "sync" /\ pc = "done" /\ exitCode = 0
  /\ Printed(Parent, "Failed to update parent repo")
  /\ \E i \in 1..Len(ops) : ops[i] = Op(Parent, "commit", "chore", FALSE)
  /\ results[1].success
  /\ summary[1] = [name |-> "svc-a", mark |-> "check"]


\* ------------------------------------------------------------- C37
\* C37: getPRForBranch returns its "none" when the repository has no open
\* pull request with that head and also when the lookup fails, whatever
\* pull requests there are; otherwise it returns the newest open pull
\* request with that head.  The value after a failed lookup is the value
\* for no pull request.
C37_FailedLookupLooksLikeNoPullRequest ==
  [][(cmd' = "getPRForBranch" /\ runs' = runs + 1)
     => LET open == {i \in 1..Len(host.prs) :
                       host.prs[i].repository = service' /\ host.prs[i].head = currentBranch'}
        IN  /\ Len(results') = 1
            /\ (failures' = failures + 1 \/ open = {}) => results'[1] = NoPR
            /\ (failures' = failures /\ open # {})
                 => \E i \in open :
                      /\ \A j \in open : j <= i
                      /\ results'[1] = PRRef(host.prs[i])
                      /\ results'[1] # NoPR]_vars

\* A lookup has failed for the branch of svc-a, for which a pull request is
\* open, and has returned "none".
C37_Witness ==
  /\ cmd = "getPRForBranch" /\ failures = failuresAtStart + 1
  /\ service = "svc-a" /\ currentBranch = "feature/x"
  /\ \E i \in 1..Len(host.prs) :
       host.prs[i].repository = "svc-a" /\ host.prs[i].head = "feature/x"
  /\ results = <<NoPR>>

\* ------------------------------------------------------------- C38
\* C38: what createPR asks of gh is a draft exactly when draft is true,
\* names a base exactly when a base was given (that base), and has the
\* title and the body as they were passed; the pull request made is a
\* draft accordingly, against the given base or else the default branch.
C38_CreateHonoursItsOptions ==
  [][(cmd' = "createPR" /\ runs' = runs + 1)
     => LET args == ops'[1].arg
            request == summary'[1]
        IN  /\ request.draft = args.draft
            /\ request.hasBase = (args.base # NoRef)
            /\ request.hasBase => request.base = args.base
            /\ request.title = args.title /\ request.body = args.body
            /\ request.dir = ops'[1].dir
            /\ ops'[1].ok
                 => LET made == host'.prs[Len(host'.prs)]
                    IN  /\ Len(host'.prs) = Len(host.prs) + 1
                        /\ made.draft = args.draft
                        /\ made.title = args.title
                        /\ made.base = IF args.base # NoRef THEN args.base ELSE "main"
                        /\ made.head = repo[ops'[1].dir].head]_vars

\* A draft pull request against dev has been made for svc-a's branch.
C38_Witness ==
  /\ cmd = "createPR" /\ returned = "true"
  /\ ops[1].ok /\ ops[1].arg.draft /\ ops[1].arg.base = "dev"
  /\ host.prs[Len(host.prs)].draft
  /\ host.prs[Len(host.prs)].base = "dev"
  /\ host.prs[Len(host.prs)].head = "feature/x"
====
